---------------------------- MODULE Spec2Model ----------------------------
(***************************************************************************)
(* market-state-detector: the configuration store, the three signal        *)
(* detectors, MarketStateDetector.analyze / analyze_with_context and the   *)
(* MarketContextAnalyzer, modelled from src/src/market_state_detector.     *)
(*                                                                         *)
(* Python floats are modelled as exact rationals [n, d] (d > 0, lowest     *)
(* terms).  math.sqrt is never taken: a volatility is carried as its       *)
(* square, and comparisons of non-negative quantities are made on the      *)
(* squares.  A raised exception is the record Raise(type, msg); a normal   *)
(* return is Return(value).  Python's None is the record None, any other   *)
(* optional value v is Some(v).                                            *)
(***************************************************************************)
EXTENDS Integers, Sequences, FiniteSets, TLC

VARIABLES
    config,            \* Config.config of the detector's Config instance
    closes,            \* analyze(): closes argument of the current call
    highs,             \* analyze(): highs argument (None or Some(list))
    lows,              \* analyze(): lows argument (None or Some(list))
    opens,             \* analyze(): opens argument (None or Some(list))
    result,            \* outcome of the last analyze / analyze_with_context call
    stock_signals,     \* analyze_context(): stock_signals argument
    benchmark_signals, \* analyze_context(): benchmark_signals argument (ordered dict)
    context,           \* outcome of the last analyze_context call
    benchmarks,        \* MarketContextAnalyzer.benchmarks
    fetcher,           \* the injected fetcher: None, or Some(outcome of each fetch_daily_bars call)
    include_context,   \* analyze_with_context(): include_context argument
    benchmark_data,    \* outcome of the last get_benchmark_data call
    fetch_log,         \* the symbols fetch_daily_bars was called with, in call order
    args,              \* the scalar arguments of a detector or of Config(...) called directly
    calls,             \* the operations called on an IBKRDataFetcher so far, with their outcomes
    running,           \* the analyze calls in progress: each call's position and locals
    heap               \* the dict objects and Config instances of the process, by identity

vars == <<config, closes, highs, lows, opens, result, stock_signals,
          benchmark_signals, context, benchmarks, fetcher, include_context,
          benchmark_data, fetch_log, args, calls, running, heap>>

---------------------------------------------------------------------------
(* Bounds of the model.                                                    *)

MaxLen == 4          \* longest price series given to analyze
MaxBenchmarks == 3   \* most benchmarks of an analyzer or of a benchmark_signals mapping
MaxConcurrent == 2   \* analyze calls that run at the same time on one detector
MaxCalls == 4        \* calls made on one IBKRDataFetcher
MaxInstances == 2    \* Config instances alive at the same time
MaxLoads == 2        \* load_from_file calls made on the instances

\* prices a series may hold: 0 is the non-positive (invalid) price
Prices == {0, 1, 2}

---------------------------------------------------------------------------
(* Values shared by all operations.                                        *)

None == [some |-> FALSE]
Some(v) == [some |-> TRUE, v |-> v]

NoError == [type |-> "none", msg |-> ""]
Return(v) == [exc |-> NoError, value |-> v]
Raise(t, m) == [exc |-> [type |-> t, msg |-> m]]
Raised(r) == r.exc.type # "none"

\* an ordered Python dict: its keys in insertion order and the value of each
EmptyDict == [keys |-> << >>, val |-> [k \in {} |-> 0]]
DictSet(d, k, v) ==
    [keys |-> IF k \in DOMAIN d.val THEN d.keys ELSE Append(d.keys, k),
     val  |-> [x \in DOMAIN d.val \cup {k} |-> IF x = k THEN v ELSE d.val[x]]]
DictHas(d, k) == k \in DOMAIN d.val

Range(s) == {s[i] : i \in DOMAIN s}

\* Python's s[a:b] for a list s, with negative and out-of-range indices
\* (0-based, b exclusive) as list slicing resolves them
SliceIndex(n, i) == IF i < 0 THEN (IF n + i < 0 THEN 0 ELSE n + i)
                    ELSE (IF i > n THEN n ELSE i)
Slice(s, a, b) ==
    LET lo == SliceIndex(Len(s), a)
        hi == SliceIndex(Len(s), b)
    IN  IF hi <= lo THEN << >> ELSE SubSeq(s, lo + 1, hi)
\* s[i] for a negative index i that is in range
At(s, i) == s[Len(s) + i + 1]

---------------------------------------------------------------------------
(* Float arithmetic, as exact rationals.                                   *)

Abs(x) == IF x < 0 THEN -x ELSE x

RECURSIVE GCD(_, _)
GCD(a, b) == IF b = 0 THEN a ELSE GCD(b, a % b)

Rat(n, d) ==
    LET s == IF d < 0 THEN -1 ELSE 1
        g == GCD(Abs(n), Abs(d))
    IN  [n |-> (s * n) \div g, d |-> (s * d) \div g]
RInt(k) == [n |-> k, d |-> 1]
RAdd(a, b) == Rat(a.n * b.d + b.n * a.d, a.d * b.d)
RSub(a, b) == Rat(a.n * b.d - b.n * a.d, a.d * b.d)
RMul(a, b) == Rat(a.n * b.n, a.d * b.d)
RDiv(a, b) == Rat(a.n * b.d, a.d * b.n)
RAbs(a) == [n |-> Abs(a.n), d |-> a.d]
RLt(a, b) == a.n * b.d < b.n * a.d
RLe(a, b) == a.n * b.d <= b.n * a.d

RECURSIVE RSum(_)
RSum(s) == IF s = << >> THEN RInt(0) ELSE RAdd(Head(s), RSum(Tail(s)))

---------------------------------------------------------------------------
(* config.py: the configuration store.  A section value is a mapping       *)
(* key -> number (SectionDict) or a YAML value that is no mapping          *)
(* (NotADict: a number, null).  A merge layer is the ordered list of the   *)
(* (section, values) items of the user's mapping.                          *)

NoItems == [k \in {} |-> 0]
SectionDict(items) == [isdict |-> TRUE, items |-> items]
NotADict == [isdict |-> FALSE, items |-> NoItems]
Item(section, values) == [section |-> section, values |-> values]

DEFAULT_CONFIG ==
    [volatility |-> SectionDict([threshold_multiplier |-> 2, lookback_period |-> 15]),
     gaps       |-> SectionDict([threshold_percent |-> 2]),
     ranges     |-> SectionDict([threshold_percent |-> 50, lookback_period |-> 15]),
     general    |-> SectionDict([min_data_points |-> 16])]

STOCK_SPECIFIC_CONFIG ==
    [TSM |-> << Item("volatility", SectionDict([threshold_multiplier |-> 3, lookback_period |-> 15])),
                Item("ranges", SectionDict([threshold_percent |-> 70, lookback_period |-> 15])),
                Item("gaps", SectionDict([threshold_percent |-> 3])) >>]

\* str.upper() on the symbols of the model
Upper(s) == CASE s = "tsm" -> "TSM"
              [] s = "aapl" -> "AAPL"
              [] OTHER -> s

\* dict.update that keeps nothing of the old mapping
MutDictUpdate_Replace(old, new) == new

\* dict.update that adds the new value to the old one of a key both have
MutDictUpdate_Accumulate(old, new) ==
    [k \in DOMAIN old \cup DOMAIN new |->
        IF k \in DOMAIN new
        THEN (IF k \in DOMAIN old THEN old[k] + new[k] ELSE new[k])
        ELSE old[k]]

\* dict.update
DictUpdate(old, new) ==
    [k \in DOMAIN old \cup DOMAIN new |-> IF k \in DOMAIN new THEN new[k] ELSE old[k]]

\* Config._merge_config: value is self.config when the call ends, also
\* when it ends by raising half-way through the layer
RECURSIVE _merge_config(_, _)
_merge_config(cfg, user_config) ==
    IF user_config = << >> THEN Return(cfg)
    ELSE LET section == Head(user_config).section
             values  == Head(user_config).values
         IN  IF section \in DOMAIN cfg /\ values.isdict
             THEN IF cfg[section].isdict
                  THEN _merge_config(
                           [cfg EXCEPT ![section] =
                               SectionDict(DictUpdate(cfg[section].items, values.items))],
                           Tail(user_config))
                  ELSE [exc |-> [type |-> "AttributeError", msg |-> "update"],
                        value |-> cfg]
             ELSE _merge_config(
                      [s \in DOMAIN cfg \cup {section} |->
                          IF s = section THEN values ELSE cfg[s]],
                      Tail(user_config))

\* Config.load_from_file, the file already parsed: user_config is the list
\* of the items of the mapping yaml.safe_load returns (<< >>: an empty file)
load_from_file(cfg, user_config) ==
    IF user_config # << >>
    THEN _merge_config(cfg, user_config)
    ELSE Return(cfg)

\* Config.__init__ merging the user file before the instrument table entry
MutConfigInit_StockLast(file, symbol) ==
    LET user == IF file.some THEN load_from_file(DEFAULT_CONFIG, file.v)
                ELSE Return(DEFAULT_CONFIG)
    IN  IF symbol # "" /\ Upper(symbol) \in DOMAIN STOCK_SPECIFIC_CONFIG
        THEN IF ~user.value["volatility"].isdict \/ ~user.value["ranges"].isdict
                \/ ~user.value["gaps"].isdict
             THEN user
             ELSE _merge_config(user.value, STOCK_SPECIFIC_CONFIG[Upper(symbol)])
        ELSE user

\* Config.__init__: symbol "" is a missing (None or empty) symbol; file is
\* None when no config_path is given or the path does not exist, else
\* Some(the parsed file)
ConfigInit(file, symbol) ==
    LET stock == IF symbol # "" /\ Upper(symbol) \in DOMAIN STOCK_SPECIFIC_CONFIG
                 THEN _merge_config(DEFAULT_CONFIG, STOCK_SPECIFIC_CONFIG[Upper(symbol)])
                 ELSE Return(DEFAULT_CONFIG)
    IN  IF Raised(stock) THEN stock
        ELSE IF file.some THEN load_from_file(stock.value, file.v)
        ELSE stock

\* x[key] for a section value x
Subscript(x, key) ==
    IF ~x.isdict THEN Raise("TypeError", "object is not subscriptable")
    ELSE IF key \notin DOMAIN x.items THEN Raise("KeyError", key)
    ELSE Return(x.items[key])

\* Config.get
ConfigGet(cfg, section, key) ==
    IF section \notin DOMAIN cfg THEN Raise("KeyError", section)
    ELSE Subscript(cfg[section], key)

\* Config.get_section that removes the section it returns (dict.pop)
MutConfigAfterGetSection_Pop(cfg, section) ==
    [s \in DOMAIN cfg \ {section} |-> cfg[s]]

\* self.config once get_section(section) has returned: dict.get stores
\* nothing, not even the default of an absent section
ConfigAfterGetSection(cfg, section) == cfg

\* Config.get_section without the default of dict.get
MutGetSection_NoDefault(cfg, section) ==
    IF section \in DOMAIN cfg THEN cfg[section] ELSE NotADict

\* Config.get_section
get_section(cfg, section) ==
    IF section \in DOMAIN cfg THEN cfg[section] ELSE SectionDict(NoItems)

---------------------------------------------------------------------------
(* volatility.py                                                           *)

\* calculate_daily_returns that skips a pair with a non-positive price
MutDailyReturns_SkipInvalid(prices) ==
    IF Len(prices) < 2
    THEN Raise("ValueError", "Need at least 2 prices to calculate returns")
    ELSE Return([i \in 1..(Len(prices) - 1) |->
                    IF prices[i] <= 0 \/ prices[i+1] <= 0 THEN RInt(0)
                    ELSE Rat(prices[i+1] - prices[i], prices[i])])

calculate_daily_returns(prices) ==
    IF Len(prices) < 2
    THEN Raise("ValueError", "Need at least 2 prices to calculate returns")
    ELSE IF \E i \in 2..Len(prices) : prices[i-1] <= 0 \/ prices[i] <= 0
    THEN Raise("ValueError", "Prices must be positive")
    ELSE Return([i \in 1..(Len(prices) - 1) |->
                    Rat(prices[i+1] - prices[i], prices[i])])

RSq(x) == RMul(x, x)

\* sum((r - mean) ** 2 for r in returns) / n
Variance(returns, mean) ==
    RDiv(RSum([i \in 1..Len(returns) |-> RSq(RSub(returns[i], mean))]),
         RInt(Len(returns)))

\* the SQUARE of the standard deviation the code returns (its variance)
calculate_volatility(returns) ==
    IF returns = << >>
    THEN Raise("ValueError", "Returns list cannot be empty")
    ELSE Return(Variance(returns, RDiv(RSum(returns), RInt(Len(returns)))))

\* SpikeResult with "abs(recent_return) >= threshold"
MutSpikeResult_NonStrict(recent_return, hist_vol_sq, threshold_sq) ==
    Return([detected |-> RLe(threshold_sq, RSq(recent_return)),
            details  |->
               [recent_return |-> recent_return,
                historical_volatility_sq |-> hist_vol_sq,
                threshold_sq |-> threshold_sq,
                spike_magnitude_sq |->
                   IF RLt(RInt(0), threshold_sq)
                   THEN RDiv(RSq(recent_return), threshold_sq)
                   ELSE RInt(0)]])

\* SpikeResult with spike_magnitude = threshold / abs(recent_return)
MutSpikeResult_InvertedMagnitude(recent_return, hist_vol_sq, threshold_sq) ==
    Return([detected |-> RLt(threshold_sq, RSq(recent_return)),
            details  |->
               [recent_return |-> recent_return,
                historical_volatility_sq |-> hist_vol_sq,
                threshold_sq |-> threshold_sq,
                spike_magnitude_sq |->
                   IF RLt(RInt(0), threshold_sq) /\ recent_return.n # 0
                   THEN RDiv(threshold_sq, RSq(recent_return))
                   ELSE RInt(0)]])

\* the details and the verdict of detect_volatility_spike; volatility,
\* threshold and spike_magnitude are carried as their squares
SpikeResult(recent_return, hist_vol_sq, threshold_sq) ==
    Return([detected |-> RLt(threshold_sq, RSq(recent_return)),
            details  |->
               [recent_return |-> recent_return,
                historical_volatility_sq |-> hist_vol_sq,
                threshold_sq |-> threshold_sq,
                spike_magnitude_sq |->
                   IF RLt(RInt(0), threshold_sq)
                   THEN RDiv(RSq(recent_return), threshold_sq)
                   ELSE RInt(0)]])

\* detect_volatility_spike from "hist_vol = ..." on
SpikeFromVolatility(recent_return, hist_vol, threshold_multiplier) ==
    IF Raised(hist_vol) THEN hist_vol
    ELSE SpikeResult(recent_return, hist_vol.value,
                     RMul(hist_vol.value,
                          RInt(threshold_multiplier * threshold_multiplier)))

\* historical_returns = returns[-(lookback_period+1):-1]
HistoricalReturns(returns, lookback_period) ==
    Slice(returns, -(lookback_period + 1), -1)

\* detect_volatility_spike from "returns = ..." on
SpikeFromReturns(returns, threshold_multiplier, lookback_period) ==
    IF Raised(returns) THEN returns
    ELSE SpikeFromVolatility(
             At(returns.value, -1),
             calculate_volatility(HistoricalReturns(returns.value, lookback_period)),
             threshold_multiplier)

\* threshold_multiplier >= 0 is assumed (the comparison is made on squares)
detect_volatility_spike(prices, threshold_multiplier, lookback_period) ==
    IF Len(prices) < lookback_period + 1
    THEN Raise("ValueError", "Need at least lookback_period + 1 prices for analysis")
    ELSE SpikeFromReturns(calculate_daily_returns(prices),
                          threshold_multiplier, lookback_period)

---------------------------------------------------------------------------
(* gaps.py                                                                 *)

\* detect_gap with "abs(gap_percent) > threshold_percent"
MutDetectGap_Strict(previous_close, current_open, threshold_percent) ==
    IF previous_close <= 0 \/ current_open <= 0
    THEN Raise("ValueError", "Prices must be positive")
    ELSE Return([detected |-> RLt(RInt(threshold_percent),
                                  RAbs(Rat((current_open - previous_close) * 100,
                                           previous_close))),
                 details  |->
                    [gap_percent   |-> Rat((current_open - previous_close) * 100,
                                           previous_close),
                     gap_direction |-> IF current_open > previous_close
                                       THEN "up" ELSE "down",
                     absolute_gap  |-> current_open - previous_close]])

detect_gap(previous_close, current_open, threshold_percent) ==
    IF previous_close <= 0 \/ current_open <= 0
    THEN Raise("ValueError", "Prices must be positive")
    ELSE LET gap_absolute == current_open - previous_close
             gap_percent  == Rat(gap_absolute * 100, previous_close)
         IN  Return([detected |-> RLe(RInt(threshold_percent), RAbs(gap_percent)),
                     details  |->
                        [gap_percent   |-> gap_percent,
                         gap_direction |-> IF RLt(RInt(0), gap_percent) THEN "up" ELSE "down",
                         absolute_gap  |-> gap_absolute]])

\* detect_gap_from_prices with previous_close = closes[-1]
MutGapFromPrices_LastClose(cl, op, threshold_percent) ==
    IF Len(cl) < 2 \/ Len(op) < 1
    THEN Raise("ValueError", "Need at least 2 closes and 1 open for gap detection")
    ELSE IF Len(op) # Len(cl)
    THEN Raise("ValueError", "Opens and closes lists must have same length")
    ELSE detect_gap(At(cl, -1), At(op, -1), threshold_percent)

detect_gap_from_prices(cl, op, threshold_percent) ==
    IF Len(cl) < 2 \/ Len(op) < 1
    THEN Raise("ValueError", "Need at least 2 closes and 1 open for gap detection")
    ELSE IF Len(op) # Len(cl)
    THEN Raise("ValueError", "Opens and closes lists must have same length")
    ELSE detect_gap(At(cl, -2), At(op, -1), threshold_percent)

---------------------------------------------------------------------------
(* ranges.py                                                               *)

calculate_range_percent(high, low, close) ==
    IF high <= 0 \/ low <= 0 \/ close <= 0
    THEN Raise("ValueError", "Prices must be positive")
    ELSE IF high < low
    THEN Raise("ValueError", "High must be greater than or equal to low")
    ELSE Return(Rat((high - low) * 100, close))

\* calculate_average_range that averages every day it is given
MutAverageRange_AllDays(hi, lo, cl, period) ==
    IF Len(hi) # Len(lo) \/ Len(hi) # Len(cl)
    THEN Raise("ValueError", "All price lists must have same length")
    ELSE IF Len(hi) < period
    THEN Raise("ValueError", "Need at least period data points")
    ELSE IF \E i \in 1..Len(hi) : Raised(calculate_range_percent(hi[i], lo[i], cl[i]))
    THEN Raise("ValueError", "Prices must be positive")
    ELSE IF Len(hi) = 0
    THEN Raise("ZeroDivisionError", "division by zero")
    ELSE Return(RDiv(RSum([k \in 1..Len(hi) |->
                              calculate_range_percent(hi[k], lo[k], cl[k]).value]),
                     RInt(Len(hi))))

calculate_average_range(hi, lo, cl, period) ==
    IF Len(hi) # Len(lo) \/ Len(hi) # Len(cl)
    THEN Raise("ValueError", "All price lists must have same length")
    ELSE IF Len(hi) < period
    THEN Raise("ValueError", "Need at least period data points")
    ELSE LET \* the days of range(-period, 0), as 1-based positions
             days   == (Len(hi) - period + 1)..Len(hi)
             rng(i) == calculate_range_percent(hi[i], lo[i], cl[i])
             bad    == {i \in days : Raised(rng(i))}
         IN  IF bad # {}
             THEN rng(CHOOSE i \in bad : \A j \in bad : i <= j)
             ELSE IF period <= 0
             THEN Raise("ZeroDivisionError", "division by zero")
             ELSE Return(RDiv(RSum([k \in 1..period |->
                                        rng(Len(hi) - period + k).value]),
                              RInt(period)))

\* WideRangeResult with range_expansion relative to average_range
MutWideRangeResult_OverAverage(current_range, avg_range, threshold) ==
    Return([detected |-> RLt(threshold, current_range),
            details  |->
               [current_range |-> current_range,
                average_range |-> avg_range,
                threshold     |-> threshold,
                range_expansion |->
                   IF RLt(RInt(0), threshold) /\ RLt(RInt(0), avg_range)
                   THEN RMul(RSub(RDiv(current_range, avg_range), RInt(1)), RInt(100))
                   ELSE RInt(0)]])

\* the details and the verdict of detect_wide_range
WideRangeResult(current_range, avg_range, threshold) ==
    Return([detected |-> RLt(threshold, current_range),
            details  |->
               [current_range |-> current_range,
                average_range |-> avg_range,
                threshold     |-> threshold,
                range_expansion |->
                   IF RLt(RInt(0), threshold)
                   THEN RMul(RSub(RDiv(current_range, threshold), RInt(1)), RInt(100))
                   ELSE RInt(0)]])

\* detect_wide_range from "current_range = ..." on
WideRangeFrom(current_range, avg_range, threshold_percent) ==
    IF Raised(current_range) THEN current_range
    ELSE IF Raised(avg_range) THEN avg_range
    ELSE WideRangeResult(current_range.value, avg_range.value,
                         RMul(avg_range.value,
                              RAdd(RInt(1), Rat(threshold_percent, 100))))

\* called with lists of one length, as analyze does
detect_wide_range(hi, lo, cl, threshold_percent, lookback_period) ==
    IF Len(hi) < lookback_period + 1
    THEN Raise("ValueError", "Need at least lookback_period + 1 data points")
    ELSE WideRangeFrom(
             calculate_range_percent(At(hi, -1), At(lo, -1), At(cl, -1)),
             calculate_average_range(Slice(hi, 0, -1), Slice(lo, 0, -1),
                                     Slice(cl, 0, -1), lookback_period),
             threshold_percent)

---------------------------------------------------------------------------
(* detector.py: MarketStateDetector.analyze                                *)

\* the body of the try block of the volatility check, up to the detector's return
VolatilityCheck(cfg, cl) ==
    LET vol_config == get_section(cfg, "volatility")
        tm == Subscript(vol_config, "threshold_multiplier")
        lb == Subscript(vol_config, "lookback_period")
    IN  IF Raised(tm) THEN tm
        ELSE IF Raised(lb) THEN lb
        ELSE detect_volatility_spike(cl, tm.value, lb.value)

GapCheck(cfg, cl, op) ==
    LET gap_config == get_section(cfg, "gaps")
        tp == Subscript(gap_config, "threshold_percent")
    IN  IF Raised(tp) THEN tp
        ELSE detect_gap_from_prices(cl, op, tp.value)

RangeCheck(cfg, hi, lo, cl) ==
    LET range_config == get_section(cfg, "ranges")
        tp == Subscript(range_config, "threshold_percent")
        lb == Subscript(range_config, "lookback_period")
    IN  IF Raised(tp) THEN tp
        ELSE IF Raised(lb) THEN lb
        ELSE detect_wide_range(hi, lo, cl, tp.value, lb.value)

\* TrySignal with the flag appended whatever the detector reported
MutTrySignal_FlagAlways(st, name, r) ==
    IF Raised(st) THEN st
    ELSE IF Raised(r)
    THEN [st EXCEPT !.signals =
              DictSet(@, name, [detected |-> FALSE, error |-> r.exc.msg])]
    ELSE [st EXCEPT !.signals =
              DictSet(@, name, [detected |-> r.value.detected,
                                details  |-> r.value.details]),
                    !.flags = Append(@, name)]

\* TrySignal without the except clause: the detector's exception leaves analyze
MutTrySignal_Propagate(st, name, r) ==
    IF Raised(st) THEN st
    ELSE IF Raised(r)
    THEN [st EXCEPT !.exc = r.exc]
    ELSE [st EXCEPT !.signals =
              DictSet(@, name, [detected |-> r.value.detected,
                                details  |-> r.value.details]),
                    !.flags = IF r.value.detected THEN Append(@, name) ELSE @]

\* TrySignal with an error key in every entry (empty when nothing failed)
MutTrySignal_ErrorKey(st, name, r) ==
    IF Raised(st) THEN st
    ELSE IF Raised(r)
    THEN [st EXCEPT !.signals =
              DictSet(@, name, [detected |-> FALSE, error |-> r.exc.msg])]
    ELSE [st EXCEPT !.signals =
              DictSet(@, name, [detected |-> r.value.detected,
                                details  |-> r.value.details,
                                error    |-> ""]),
                    !.flags = IF r.value.detected THEN Append(@, name) ELSE @]

\* one "try: ... except Exception as e: ..." block of analyze: st is the
\* state of the call so far (exc: the exception that left it, if any), r the
\* outcome of the block's detector call
TrySignal(st, name, r) ==
    IF Raised(st) THEN st
    ELSE IF Raised(r)
    THEN [st EXCEPT !.signals =
              DictSet(@, name, [detected |-> FALSE, error |-> r.exc.msg])]
    ELSE [st EXCEPT !.signals =
              DictSet(@, name, [detected |-> r.value.detected,
                                details  |-> r.value.details]),
                    !.flags = IF r.value.detected THEN Append(@, name) ELSE @]

\* RunsGap without the comparison of the lengths
MutRunsGap_NoLength(cl, op) == op.some

\* the guard of the gap block, and of the range block
RunsGap(cl, op) == op.some /\ Len(op.v) = Len(cl)
RunsRange(cl, hi, lo) ==
    hi.some /\ lo.some /\ Len(hi.v) = Len(cl) /\ Len(lo.v) = Len(cl)

Summary(stage_1_detected, flags) ==
    IF stage_1_detected
    THEN [text |-> "HIGH UNCERTAINTY DETECTED - Stage 1 regime likely", signals |-> flags]
    ELSE [text |-> "No Stage 1 signals detected", signals |-> << >>]

VolatilityBlock(st, cfg, cl) ==
    TrySignal(st, "volatility_spike", VolatilityCheck(cfg, cl))

GapBlock(st, cfg, cl, op) ==
    IF RunsGap(cl, op)
    THEN TrySignal(st, "price_gap", GapCheck(cfg, cl, op.v))
    ELSE st

RangeBlock(st, cfg, cl, hi, lo) ==
    IF RunsRange(cl, hi, lo)
    THEN TrySignal(st, "wide_range", RangeCheck(cfg, hi.v, lo.v, cl))
    ELSE st

\* analyze from "stage_1_detected = ..." on
AnalysisResult(st) ==
    IF Raised(st) THEN [exc |-> st.exc]
    ELSE Return([stage_1_detected |-> Len(st.flags) > 0,
                 signals |-> st.signals,
                 flags   |-> st.flags,
                 summary |-> Summary(Len(st.flags) > 0, st.flags)])

\* AnalyzeFrom with <= for < in the check of the minimum
MutAnalyzeFrom_OffByOne(min_points, cfg, cl, hi, lo, op) ==
    IF Raised(min_points) THEN min_points
    ELSE IF Len(cl) <= min_points.value
    THEN Raise("ValueError", "Need at least min_points closing prices for analysis")
    ELSE AnalysisResult(
             RangeBlock(
                 GapBlock(
                     VolatilityBlock(
                         [exc |-> NoError, signals |-> EmptyDict, flags |-> << >>],
                         cfg, cl),
                     cfg, cl, op),
                 cfg, cl, hi, lo))

\* analyze once the minimum is read
AnalyzeFrom(min_points, cfg, cl, hi, lo, op) ==
    IF Raised(min_points) THEN min_points
    ELSE IF Len(cl) < min_points.value
    THEN Raise("ValueError", "Need at least min_points closing prices for analysis")
    ELSE AnalysisResult(
             RangeBlock(
                 GapBlock(
                     VolatilityBlock(
                         [exc |-> NoError, signals |-> EmptyDict, flags |-> << >>],
                         cfg, cl),
                     cfg, cl, op),
                 cfg, cl, hi, lo))

analyze(cfg, cl, hi, lo, op) ==
    AnalyzeFrom(ConfigGet(cfg, "general", "min_data_points"), cfg, cl, hi, lo, op)

StageOf(r) == IF Raised(r) THEN r ELSE Return(r.value.stage_1_detected)

analyze_simple(cfg, cl) == StageOf(analyze(cfg, cl, None, None, None))

---------------------------------------------------------------------------
(* market_context.py.  benchmark_signals is an ordered dict benchmark ->   *)
(* None or Some(list of flags); the fetcher is the outcome of each of its  *)
(* fetch_daily_bars calls, in call order.                                  *)

DEFAULT_BENCHMARKS == <<"SPY", "QQQ", "DIA">>

\* MarketContextAnalyzer.__init__: benchmarks or DEFAULT_BENCHMARKS
AnalyzerInit(bm) == IF bm.some /\ bm.v # << >> THEN bm.v ELSE DEFAULT_BENCHMARKS

\* Python's truth value of a benchmark's signals: None and [] are false
Truthy(signals) == signals.some /\ signals.v # << >>

RECURSIVE Filter(_, _, _)
\* [k for k in keys if k in keep], for the keys of an ordered dict
Filter(keys, keep, acc) ==
    IF keys = << >> THEN acc
    ELSE Filter(Tail(keys), keep,
                IF Head(keys) \in keep THEN Append(acc, Head(keys)) ELSE acc)

\* a / b
Divide(a, b) ==
    IF b = 0 THEN Raise("ZeroDivisionError", "division by zero") ELSE Return(Rat(a, b))

\* ContextType with > 2 for >= 2
MutContextType_MoreThanTwo(num_affected) ==
    IF num_affected = 0 THEN "stock_specific"
    ELSE IF num_affected > 2 THEN "broad_market"
    ELSE "sector"

ContextType(num_affected) ==
    IF num_affected = 0 THEN "stock_specific"
    ELSE IF num_affected >= 2 THEN "broad_market"
    ELSE "sector"

Description(affected_benchmarks) ==
    IF Len(affected_benchmarks) = 0 THEN "volatility appears stock-specific"
    ELSE IF Len(affected_benchmarks) >= 2 THEN "Broad market volatility detected"
    ELSE IF affected_benchmarks[1] = "QQQ" THEN "Tech sector volatility detected"
    ELSE IF affected_benchmarks[1] = "DIA" THEN "Blue-chip sector volatility"
    ELSE "Sector-specific volatility"

\* analyze_context from "correlation_score = ..." on
ContextResult(affected_benchmarks, correlation_score) ==
    IF Raised(correlation_score) THEN correlation_score
    ELSE Return([context_type        |-> ContextType(Len(affected_benchmarks)),
                 benchmarks_affected |-> affected_benchmarks,
                 correlation_score   |-> correlation_score.value,
                 description         |-> Description(affected_benchmarks)])

\* CorrelationScore without the guard against an empty denominator
MutCorrelationScore_NoGuard(num_affected, total_benchmarks) ==
    Divide(num_affected, total_benchmarks)

CorrelationScore(num_affected, total_benchmarks) ==
    IF total_benchmarks > 0 THEN Divide(num_affected, total_benchmarks)
    ELSE Return(RInt(0))

AffectedBenchmarks(bs) ==
    Filter(bs.keys, {b \in DOMAIN bs.val : Truthy(bs.val[b])}, << >>)

\* TotalBenchmarks counting every key, null entries included
MutTotalBenchmarks_AllKeys(bs) == Len(bs.keys)

TotalBenchmarks(bs) ==
    Len(Filter(bs.keys, {b \in DOMAIN bs.val : bs.val[b] # None}, << >>))

analyze_context(symbol, ss, bs) ==
    IF ss = << >>
    THEN Return([context_type        |-> "normal",
                 benchmarks_affected |-> << >>,
                 correlation_score   |-> RInt(0),
                 description         |-> "No uncertainty signals detected"])
    ELSE ContextResult(AffectedBenchmarks(bs),
                       CorrelationScore(Len(AffectedBenchmarks(bs)), TotalBenchmarks(bs)))

\* TryFetch without the except clause: a failed fetch leaves the loop
MutTryFetch_Abort(st, b, days, r) ==
    IF Raised(st) THEN st
    ELSE IF Raised(r)
    THEN [st EXCEPT !.exc = r.exc, !.log = Append(@, [symbol |-> b, days |-> days])]
    ELSE [st EXCEPT !.data = DictSet(@, b, Some(r.value)),
                    !.log  = Append(@, [symbol |-> b, days |-> days])]

\* one turn of the loop of get_benchmark_data: the try block around the
\* fetch of benchmark b, whose outcome is r.  st.exc is the exception that
\* left the loop, if any
TryFetch(st, b, days, r) ==
    IF Raised(st) THEN st
    ELSE [st EXCEPT !.data = DictSet(@, b, IF Raised(r) THEN None ELSE Some(r.value)),
                    !.log  = Append(@, [symbol |-> b, days |-> days])]

RECURSIVE FetchLoop(_, _, _, _, _)
FetchLoop(st, bm, outcomes, days, i) ==
    IF i > Len(bm) THEN st
    ELSE FetchLoop(TryFetch(st, bm[i], days, outcomes[i]), bm, outcomes, days, i + 1)

\* value: the returned dict in data, the calls made to the fetcher in log
get_benchmark_data(bm, outcomes, days) ==
    FetchLoop([exc |-> NoError, data |-> EmptyDict, log |-> << >>], bm, outcomes, days, 1)

format_context_message(ctx) ==
    IF ctx.context_type = "normal" THEN << >>
    ELSE << "Market Context:", ctx.description,
            CASE ctx.context_type = "broad_market" ->
                   "This appears to be a market-wide event affecting multiple indices."
              [] ctx.context_type = "sector" ->
                   "This appears to be sector-specific volatility."
              [] OTHER ->
                   "This appears to be isolated to this stock (higher individual risk)." >>

---------------------------------------------------------------------------
(* detector.py: MarketStateDetector.analyze_with_context.  A fetched       *)
(* benchmark is the dict [closes, highs, lows, opens] of its series.       *)

\* the flags recorded for one benchmark of benchmark_data
FlagsOf(r) == IF Raised(r) THEN << >> ELSE r.value.flags
BenchmarkFlags(cfg, bench_data) ==
    IF bench_data = None THEN << >>
    ELSE FlagsOf(analyze(cfg, bench_data.v.closes, Some(bench_data.v.highs),
                         Some(bench_data.v.lows), Some(bench_data.v.opens)))

\* the loop "for bench_symbol, bench_data in benchmark_data.items()"
BenchmarkSignals(cfg, data) ==
    [keys |-> data.keys,
     val  |-> [b \in DOMAIN data.val |-> Some(BenchmarkFlags(cfg, data.val[b]))]]

WithMarketContext(res, market_context) ==
    [stage_1_detected |-> res.stage_1_detected,
     signals |-> res.signals,
     flags   |-> res.flags,
     summary |-> res.summary,
     market_context |-> market_context]

\* the end of the try block: result['market_context'] = {...}, or None
\* when the block raised
ContextOf(res, ctx) ==
    IF Raised(ctx) THEN WithMarketContext(res, None)
    ELSE WithMarketContext(res,
             Some([type                |-> ctx.value.context_type,
                   benchmarks_affected |-> ctx.value.benchmarks_affected,
                   correlation_score   |-> ctx.value.correlation_score,
                   description         |-> ctx.value.description,
                   message             |-> format_context_message(ctx.value)]))

\* the try block, once the benchmarks are fetched
ContextTry(res, cfg, symbol, fetched) ==
    [exc   |-> NoError,
     value |-> IF Raised(fetched) THEN WithMarketContext(res, None)
               ELSE ContextOf(res, analyze_context(symbol, res.flags,
                                                   BenchmarkSignals(cfg, fetched.data))),
     log   |-> fetched.log]

\* analyze_with_context that returns early only when no context is asked
\* for or no fetcher is given
MutContextFrom_WithoutStage1(r, cfg, symbol, days, f, inc) ==
    IF Raised(r) THEN [exc |-> r.exc, log |-> << >>]
    ELSE IF ~inc \/ f = None
    THEN [exc |-> NoError, value |-> WithMarketContext(r.value, None), log |-> << >>]
    ELSE ContextTry(r.value, cfg, symbol,
                    get_benchmark_data(AnalyzerInit(None), f.v, days))

\* analyze_with_context once the standard analysis r is made
ContextFrom(r, cfg, symbol, days, f, inc) ==
    IF Raised(r) THEN [exc |-> r.exc, log |-> << >>]
    ELSE IF ~inc \/ f = None \/ ~r.value.stage_1_detected
    THEN [exc |-> NoError, value |-> WithMarketContext(r.value, None), log |-> << >>]
    ELSE ContextTry(r.value, cfg, symbol,
                    get_benchmark_data(AnalyzerInit(None), f.v, days))

\* log: the calls made to the fetcher
analyze_with_context(cfg, symbol, cl, hi, lo, op, f, inc) ==
    ContextFrom(analyze(cfg, cl, hi, lo, op), cfg, symbol, Len(cl), f, inc)

---------------------------------------------------------------------------
(* Inputs of the model.                                                    *)

Flat(v, n) == [i \in 1..n |-> v]

RECURSIVE SeqsUpTo(_, _)
SeqsUpTo(S, n) ==
    IF n = 0 THEN {<< >>}
    ELSE LET shorter == SeqsUpTo(S, n - 1)
         IN  shorter \cup {Append(q, x) : q \in {t \in shorter : Len(t) = n - 1}, x \in S}

\* close series: every series of at most MaxLen prices
ClosesInputs == SeqsUpTo(Prices, MaxLen)

\* an optional series next to closes cl: missing, flat at a price with cl's
\* length, or one element longer than cl
OptionalInputs(cl, values) ==
    {None} \cup {Some(Flat(v, Len(cl))) : v \in values}
           \cup {Some(Flat(1, Len(cl) + 1))}

\* user configuration files (parsed): the lookbacks and the minimum made
\* small enough for series of MaxLen prices, and sections that are no mapping
Small(section) ==
    CASE section = "general"    -> SectionDict([min_data_points |-> 2])
      [] section = "volatility" -> SectionDict([lookback_period |-> 2])
      [] section = "ranges"     -> SectionDict([lookback_period |-> 2])
      [] section = "gaps"       -> SectionDict([threshold_percent |-> 2])
SmallFile(broken) ==
    [i \in 1..4 |->
        LET section == <<"general", "volatility", "gaps", "ranges">>[i]
        IN  Item(section, IF section \in broken THEN NotADict ELSE Small(section))]
ConfigFiles ==
    {None, Some(<< Item("general", Small("general")) >>)}
    \cup {Some(SmallFile(b)) : b \in {{}, {"general"}, {"volatility"}, {"gaps"}, {"ranges"}}}
Symbols == {"", "tsm"}
Configs == {ConfigInit(f, s).value : f \in ConfigFiles, s \in Symbols}

NotCalled == [op |-> "none"]
NoArgs == [fn |-> "none"]
NoHeap == [dicts |-> << >>, instances |-> << >>]
Called(op, out) == [op |-> op, out |-> out]

---------------------------------------------------------------------------
(* Specification SpecAnalyze: analyze and analyze_simple called on a       *)
(* detector whose Config was constructed from a symbol and a user file.    *)

Idle ==
    /\ closes = << >> /\ highs = None /\ lows = None /\ opens = None
    /\ result = NotCalled
    /\ stock_signals = << >> /\ benchmark_signals = EmptyDict /\ context = NotCalled
    /\ fetcher = None /\ include_context = TRUE
    /\ benchmark_data = NotCalled /\ fetch_log = << >>
    /\ calls = << >> /\ running = << >> /\ heap = NoHeap
    /\ args = NoArgs

InitAnalyze == config \in Configs /\ benchmarks = AnalyzerInit(None) /\ Idle

\* no call is in progress and no result is held
Ready == result = NotCalled /\ context = NotCalled /\ benchmark_data = NotCalled

Analyze ==
    /\ Ready
    /\ \E cl \in ClosesInputs :
        \E op \in OptionalInputs(cl, Prices), hi \in OptionalInputs(cl, {1, 2}),
           lo \in OptionalInputs(cl, {1, 2}) :
        /\ closes' = cl /\ highs' = hi /\ lows' = lo /\ opens' = op
        /\ result' = Called("analyze", analyze(config, cl, hi, lo, op))
        /\ UNCHANGED <<config, args, calls, running, heap, stock_signals, benchmark_signals, context,
                       benchmarks, fetcher, include_context, benchmark_data, fetch_log>>

AnalyzeSimple ==
    /\ Ready
    /\ \E cl \in ClosesInputs :
        /\ closes' = cl /\ highs' = None /\ lows' = None /\ opens' = None
        /\ result' = Called("analyze_simple", analyze_simple(config, cl))
        /\ UNCHANGED <<config, args, calls, running, heap, stock_signals, benchmark_signals, context,
                       benchmarks, fetcher, include_context, benchmark_data, fetch_log>>

\* the caller is done with the outcome of the last call: the next call
\* starts from the same Config, nothing else is kept
Discard ==
    /\ ~Ready
    /\ closes' = << >> /\ highs' = None /\ lows' = None /\ opens' = None
    /\ result' = NotCalled
    /\ stock_signals' = << >> /\ benchmark_signals' = EmptyDict /\ context' = NotCalled
    /\ fetcher' = None /\ include_context' = TRUE
    /\ benchmark_data' = NotCalled /\ fetch_log' = << >>
    /\ UNCHANGED <<config, args, calls, running, heap, benchmarks>>

NextAnalyze == Analyze \/ AnalyzeSimple \/ Discard

SpecAnalyze == InitAnalyze /\ [][NextAnalyze]_vars

---------------------------------------------------------------------------
(* Specification SpecContext: analyze_context, get_benchmark_data and      *)
(* analyze_with_context, on an analyzer constructed with a benchmark list  *)
(* and a detector whose Config was constructed as in SpecAnalyze.          *)

BenchmarkNames == <<"SPY", "QQQ", "DIA", "IWM", "XLK", "XLF">>
FirstBenchmarks(n) == SubSeq(BenchmarkNames, 1, n)

FlagLists == {<< >>, <<"volatility_spike">>, <<"price_gap", "wide_range">>}
SignalValues == {None} \cup {Some(f) : f \in FlagLists}

\* benchmark_signals mappings: the first n benchmarks, each with null, empty
\* or non-empty flags
BenchmarkSignalInputs ==
    UNION {{[keys |-> FirstBenchmarks(n), val |-> v] :
               v \in [Range(FirstBenchmarks(n)) -> SignalValues]} :
           n \in 0..MaxBenchmarks}

\* benchmark lists given to MarketContextAnalyzer(...)
AnalyzerInputs ==
    {None, Some(<< >>), Some(<<"QQQ", "SPY">>)}
    \cup {Some(FirstBenchmarks(n)) : n \in 1..MaxBenchmarks}

\* what one fetch_daily_bars call does: it fails, or returns the bars of a
\* benchmark that jumps on its last day, of a flat one, or of a one-day one
Bars(cl) == [closes |-> cl, highs |-> Flat(2, Len(cl)),
             lows |-> Flat(1, Len(cl)), opens |-> cl]
FetchOutcomes ==
    {Raise("ConnectionError", "fetch failed")}
    \cup {Return(Bars(cl)) : cl \in {<<1, 1, 1, 2>>, <<1, 1, 1, 1>>, <<1>>}}

\* the stock's series in analyze_with_context
StockCloses == {<<1, 1, 1, 2>>, <<1, 1, 1, 1>>, <<2, 2, 1, 1>>, <<1>>}

InitContext ==
    /\ config \in Configs
    /\ benchmarks \in {AnalyzerInit(bm) : bm \in AnalyzerInputs}
    /\ Idle

AnalyzeContext ==
    /\ Ready
    /\ \E ss \in FlagLists, bs \in BenchmarkSignalInputs :
        /\ stock_signals' = ss /\ benchmark_signals' = bs
        /\ context' = Called("analyze_context", analyze_context("AAPL", ss, bs))
        /\ UNCHANGED <<config, args, calls, running, heap, closes, highs, lows, opens, result, benchmarks,
                       fetcher, include_context, benchmark_data, fetch_log>>

\* the outcome [exc, value, log] of a call that used the fetcher, stored
Fetched(op, r) ==
    Called(op, IF Raised(r) THEN [exc |-> r.exc] ELSE Return(r.value))

GetBenchmarkData ==
    /\ Ready
    /\ \E outcomes \in [1..Len(benchmarks) -> FetchOutcomes] :
        /\ fetcher' = Some(outcomes)
        /\ benchmark_data' =
              Called("get_benchmark_data",
                     [exc  |-> get_benchmark_data(benchmarks, outcomes, MaxLen).exc,
                      data |-> get_benchmark_data(benchmarks, outcomes, MaxLen).data])
        /\ fetch_log' = get_benchmark_data(benchmarks, outcomes, MaxLen).log
        /\ UNCHANGED <<config, args, calls, running, heap, closes, highs, lows, opens, result, stock_signals,
                       benchmark_signals, context, benchmarks, include_context>>

AnalyzeWithContext ==
    /\ Ready
    /\ \E cl \in StockCloses, inc \in BOOLEAN,
          f \in {None} \cup {Some(o) : o \in [1..Len(AnalyzerInit(None)) -> FetchOutcomes]} :
       \E op \in {None, Some(cl)} :
        /\ closes' = cl /\ highs' = None /\ lows' = None /\ opens' = op
        /\ fetcher' = f /\ include_context' = inc
        /\ result' = Fetched("analyze_with_context",
                             analyze_with_context(config, "AAPL", cl, None, None,
                                                  op, f, inc))
        /\ fetch_log' = analyze_with_context(config, "AAPL", cl, None, None,
                                             op, f, inc).log
        /\ UNCHANGED <<config, args, calls, running, heap, stock_signals, benchmark_signals, context,
                       benchmarks, benchmark_data>>

NextContext == AnalyzeContext \/ GetBenchmarkData \/ AnalyzeWithContext \/ Discard

SpecContext == InitContext /\ [][NextContext]_vars

---------------------------------------------------------------------------
(* Specification SpecDetectors: one of the detectors called directly, on   *)
(* the series and the parameters the caller supplies.                      *)

\* lookback periods a caller passes
Lookbacks == 1..(MaxLen - 1)

VolatilityArgs ==
    {[fn |-> "detect_volatility_spike", threshold_multiplier |-> m, lookback_period |-> l] :
        m \in {0, 1, 2}, l \in Lookbacks}
GapArgs ==
    {[fn |-> "detect_gap", previous_close |-> p, current_open |-> o, threshold_percent |-> t] :
        p \in 0..3, o \in 0..3, t \in {0, 50, 100}}
GapFromPricesArgs ==
    {[fn |-> "detect_gap_from_prices", threshold_percent |-> t] : t \in {50, 100}}
WideRangeArgs ==
    {[fn |-> "detect_wide_range", threshold_percent |-> t, lookback_period |-> l] :
        t \in {0, 100}, l \in Lookbacks}

\* one day of a high/low/close series: three valid days (range 0, 100 and
\* 50 percent), a day with high < low, and a day with a non-positive high
\* and low, low, or close
DayBars ==
    {[high |-> 1, low |-> 1, close |-> 1], [high |-> 2, low |-> 1, close |-> 1],
     [high |-> 2, low |-> 1, close |-> 2], [high |-> 1, low |-> 2, close |-> 2],
     [high |-> 0, low |-> 0, close |-> 1], [high |-> 1, low |-> 0, close |-> 1],
     [high |-> 1, low |-> 1, close |-> 0]}
BarSeries == SeqsUpTo(DayBars, MaxLen)
Column(bars, field) == [i \in 1..Len(bars) |-> bars[i][field]]

\* everything but the arguments of the call
NothingElse ==
    /\ config = DEFAULT_CONFIG /\ benchmarks = AnalyzerInit(None)
    /\ result = NotCalled
    /\ stock_signals = << >> /\ benchmark_signals = EmptyDict /\ context = NotCalled
    /\ fetcher = None /\ include_context = TRUE
    /\ benchmark_data = NotCalled /\ fetch_log = << >>
    /\ calls = << >> /\ running = << >> /\ heap = NoHeap

InitDetectors ==
    /\ NothingElse
    /\ \/ /\ args \in VolatilityArgs /\ closes \in ClosesInputs
          /\ highs = None /\ lows = None /\ opens = None
       \/ /\ args \in GapArgs /\ closes = << >>
          /\ highs = None /\ lows = None /\ opens = None
       \/ /\ args \in GapFromPricesArgs /\ closes \in SeqsUpTo(Prices, MaxLen - 1)
          /\ opens \in {Some(o) : o \in SeqsUpTo(Prices, MaxLen - 1)}
          /\ highs = None /\ lows = None
       \/ /\ args \in WideRangeArgs
          /\ \E bars \in BarSeries :
              /\ closes = Column(bars, "close")
              /\ highs = Some(Column(bars, "high")) /\ lows = Some(Column(bars, "low"))
          /\ opens = None

DetectVolatilitySpike ==
    /\ Ready /\ args.fn = "detect_volatility_spike"
    /\ result' = Called(args.fn,
                        detect_volatility_spike(closes, args.threshold_multiplier,
                                                args.lookback_period))
    /\ UNCHANGED <<config, args, calls, running, heap, closes, highs, lows, opens, stock_signals,
                   benchmark_signals, context, benchmarks, fetcher,
                   include_context, benchmark_data, fetch_log>>

DetectGap ==
    /\ Ready /\ args.fn = "detect_gap"
    /\ result' = Called(args.fn,
                        detect_gap(args.previous_close, args.current_open,
                                   args.threshold_percent))
    /\ UNCHANGED <<config, args, calls, running, heap, closes, highs, lows, opens, stock_signals,
                   benchmark_signals, context, benchmarks, fetcher,
                   include_context, benchmark_data, fetch_log>>

DetectGapFromPrices ==
    /\ Ready /\ args.fn = "detect_gap_from_prices"
    /\ result' = Called(args.fn,
                        detect_gap_from_prices(closes, opens.v, args.threshold_percent))
    /\ UNCHANGED <<config, args, calls, running, heap, closes, highs, lows, opens, stock_signals,
                   benchmark_signals, context, benchmarks, fetcher,
                   include_context, benchmark_data, fetch_log>>

DetectWideRange ==
    /\ Ready /\ args.fn = "detect_wide_range"
    /\ result' = Called(args.fn,
                        detect_wide_range(highs.v, lows.v, closes,
                                          args.threshold_percent, args.lookback_period))
    /\ UNCHANGED <<config, args, calls, running, heap, closes, highs, lows, opens, stock_signals,
                   benchmark_signals, context, benchmarks, fetcher,
                   include_context, benchmark_data, fetch_log>>

NextDetectors ==
    DetectVolatilitySpike \/ DetectGap \/ DetectGapFromPrices \/ DetectWideRange

SpecDetectors == InitDetectors /\ [][NextDetectors]_vars

---------------------------------------------------------------------------
(* Specification SpecConfig: Config(config_path, symbol) constructed from  *)
(* a symbol and a user file.                                               *)

\* what a user file says about one section: nothing (None), a mapping, or a
\* value that is no mapping
UserSectionValues(section) ==
    CASE section = "volatility" ->
            {None, Some(NotADict),
             Some(SectionDict([threshold_multiplier |-> 7])),
             Some(SectionDict([lookback_period |-> 8])),
             Some(SectionDict([threshold_multiplier |-> 7, lookback_period |-> 8]))}
      [] section = "gaps" ->
            {None, Some(NotADict), Some(SectionDict(NoItems)),
             Some(SectionDict([threshold_percent |-> 9]))}
      [] section = "ranges" ->
            {None, Some(NotADict),
             Some(SectionDict([threshold_percent |-> 9])),
             Some(SectionDict([lookback_period |-> 8]))}
      [] section = "general" ->
            {None, Some(NotADict),
             Some(SectionDict([min_data_points |-> 5])),
             Some(SectionDict([extra |-> 1]))}
      [] section = "custom" ->
            {None, Some(SectionDict([extra |-> 1]))}

SectionNames == <<"volatility", "gaps", "ranges", "general", "custom">>
KeyNames == {"threshold_multiplier", "lookback_period", "threshold_percent",
             "min_data_points", "extra"}

\* the items of the mapping a user file holds, in the file's order
UserLayer(choice) ==
    LET present == SelectSeq(SectionNames, LAMBDA n : choice[n].some)
    IN  [i \in 1..Len(present) |-> Item(present[i], choice[present[i]].v)]

UserFiles ==
    {None} \cup
    {Some(UserLayer(choice)) :
        choice \in {c \in [Range(SectionNames) -> UNION {UserSectionValues(n) :
                                                         n \in Range(SectionNames)}] :
                       \A n \in Range(SectionNames) : c[n] \in UserSectionValues(n)}}

ConfigSymbols == {"", "tsm", "TSM", "aapl"}

InitConfig ==
    /\ args \in {[fn |-> "Config", file |-> f, symbol |-> sym] :
                    f \in UserFiles, sym \in ConfigSymbols}
    /\ closes = << >> /\ highs = None /\ lows = None /\ opens = None
    /\ NothingElse

\* Config.__init__, from the copy of DEFAULT_CONFIG on
Construct ==
    /\ Ready
    /\ config' = ConfigInit(args.file, args.symbol).value
    /\ result' = Called("Config", [exc |-> ConfigInit(args.file, args.symbol).exc])
    /\ UNCHANGED <<args, calls, running, heap, closes, highs, lows, opens, stock_signals,
                   benchmark_signals, context, benchmarks, fetcher,
                   include_context, benchmark_data, fetch_log>>

\* the files a constructed Config is reloaded from (parsed)
ReloadLayers ==
    {<< >>,
     << Item("volatility", SectionDict([threshold_multiplier |-> 7])) >>,
     << Item("volatility", SectionDict([lookback_period |-> 8])),
        Item("gaps", SectionDict([threshold_percent |-> 9])) >>,
     << Item("general", SectionDict([min_data_points |-> 5])),
        Item("volatility", SectionDict([threshold_multiplier |-> 7, extra |-> 1])) >>,
     << Item("ranges", SectionDict(NoItems)) >>,
     << Item("custom", SectionDict([extra |-> 1])) >>,
     << Item("general", NotADict) >>,
     << Item("gaps", SectionDict([threshold_percent |-> 9])),
        Item("volatility", NotADict) >>}

\* a Config has been constructed and no call on it is in progress
ConfigReady == result.op \in {"Config", "load_from_file", "get", "get_section"}

\* config.load_from_file(path) on the constructed Config
LoadFromFile ==
    /\ ConfigReady
    /\ \E layer \in ReloadLayers :
        /\ args' = [fn |-> "load_from_file", file |-> layer]
        /\ config' = load_from_file(config, layer).value
        /\ result' = Called("load_from_file", [exc |-> load_from_file(config, layer).exc])
    /\ UNCHANGED <<calls, running, heap, closes, highs, lows, opens, stock_signals,
                   benchmark_signals, context, benchmarks, fetcher,
                   include_context, benchmark_data, fetch_log>>

\* the section and key names a caller reads
ReadSections == {"volatility", "general", "custom"}
ReadKeys == {"lookback_period", "min_data_points", "extra"}

\* config.get(section, key)
Get ==
    /\ ConfigReady
    /\ \E section \in ReadSections, key \in ReadKeys :
        /\ args' = [fn |-> "get", section |-> section, key |-> key]
        /\ result' = Called("get", ConfigGet(config, section, key))
    /\ UNCHANGED <<config, calls, running, heap, closes, highs, lows, opens,
                   stock_signals, benchmark_signals, context, benchmarks, fetcher,
                   include_context, benchmark_data, fetch_log>>

\* config.get_section(section)
GetSection ==
    /\ ConfigReady
    /\ \E section \in ReadSections :
        /\ args' = [fn |-> "get_section", section |-> section]
        /\ result' = Called("get_section", Return(get_section(config, section)))
    /\ UNCHANGED <<config, calls, running, heap, closes, highs, lows, opens,
                   stock_signals, benchmark_signals, context, benchmarks, fetcher,
                   include_context, benchmark_data, fetch_log>>

NextConfig == Construct \/ LoadFromFile \/ Get \/ GetSection

SpecConfig == InitConfig /\ [][NextConfig]_vars

---------------------------------------------------------------------------
(* Specification SpecConcurrent: MaxConcurrent analyze calls on one         *)
(* detector, each running block by block, interleaved in any order.  All   *)
(* a call keeps is in its own locals; the calls share self.config.         *)

ConcurrentConfigs ==
    {ConfigInit(f, "").value :
        f \in {Some(SmallFile({})), Some(SmallFile({"volatility"})),
               Some(SmallFile({"general"}))}}

\* the arguments of one analyze call
ConcurrentInputs ==
    {[closes |-> cl, highs |-> Some(Flat(2, Len(cl))), lows |-> Some(Flat(1, Len(cl))),
      opens |-> Some(cl)] : cl \in StockCloses}
    \cup {[closes |-> <<1, 1, 1, 2>>, highs |-> None, lows |-> None, opens |-> None]}

NotStarted == [pc |-> "idle"]

InitConcurrent ==
    /\ config \in ConcurrentConfigs
    /\ running = [i \in 1..MaxConcurrent |-> NotStarted]
    /\ benchmarks = AnalyzerInit(None)
    /\ closes = << >> /\ highs = None /\ lows = None /\ opens = None
    /\ result = NotCalled /\ args = NoArgs
    /\ stock_signals = << >> /\ benchmark_signals = EmptyDict /\ context = NotCalled
    /\ fetcher = None /\ include_context = TRUE
    /\ benchmark_data = NotCalled /\ fetch_log = << >>
    /\ calls = << >> /\ heap = NoHeap

OnlyRunningAndConfig ==
    UNCHANGED <<closes, highs, lows, opens, result, stock_signals, benchmark_signals,
                context, benchmarks, fetcher, include_context, benchmark_data,
                fetch_log, args, calls, heap>>

\* analyze is entered: given remembers the arguments and the Configuration
\* as they were at the call
BeginAnalyze ==
    \E i \in 1..MaxConcurrent, in \in ConcurrentInputs :
        /\ running[i].pc = "idle"
        /\ running' = [running EXCEPT ![i] =
              [pc |-> "minimum", closes |-> in.closes, highs |-> in.highs,
               lows |-> in.lows, opens |-> in.opens,
               given |-> [inputs |-> in, config |-> config],
               st |-> [exc |-> NoError, signals |-> EmptyDict, flags |-> << >>],
               result |-> NotCalled]]
        /\ UNCHANGED config /\ OnlyRunningAndConfig

\* outcome of the check of the minimum: the call goes on, or leaves by raising
AfterMinimum(call, min_points) ==
    IF Raised(min_points)
    THEN [call EXCEPT !.pc = "done", !.result = Called("analyze", min_points)]
    ELSE IF Len(call.closes) < min_points.value
    THEN [call EXCEPT !.pc = "done",
              !.result = Called("analyze",
                  Raise("ValueError",
                        "Need at least min_points closing prices for analysis"))]
    ELSE [call EXCEPT !.pc = "volatility"]

CheckMinimum ==
    \E i \in 1..MaxConcurrent :
        /\ running[i].pc = "minimum"
        /\ running' = [running EXCEPT ![i] =
              AfterMinimum(@, ConfigGet(config, "general", "min_data_points"))]
        /\ UNCHANGED config /\ OnlyRunningAndConfig

VolatilityStep ==
    \E i \in 1..MaxConcurrent :
        /\ running[i].pc = "volatility"
        /\ running' = [running EXCEPT ![i] =
              [@ EXCEPT !.pc = "gap",
                        !.st = VolatilityBlock(@, config, running[i].closes)]]
        /\ config' = ConfigAfterGetSection(config, "volatility")
        /\ OnlyRunningAndConfig

GapStep ==
    \E i \in 1..MaxConcurrent :
        /\ running[i].pc = "gap"
        /\ running' = [running EXCEPT ![i] =
              [@ EXCEPT !.pc = "range",
                        !.st = GapBlock(@, config, running[i].closes, running[i].opens)]]
        /\ config' = IF RunsGap(running[i].closes, running[i].opens)
                     THEN ConfigAfterGetSection(config, "gaps") ELSE config
        /\ OnlyRunningAndConfig

RangeStep ==
    \E i \in 1..MaxConcurrent :
        /\ running[i].pc = "range"
        /\ running' = [running EXCEPT ![i] =
              [@ EXCEPT !.pc = "summary",
                        !.st = RangeBlock(@, config, running[i].closes,
                                          running[i].highs, running[i].lows)]]
        /\ config' = IF RunsRange(running[i].closes, running[i].highs, running[i].lows)
                     THEN ConfigAfterGetSection(config, "ranges") ELSE config
        /\ OnlyRunningAndConfig

ReturnStep ==
    \E i \in 1..MaxConcurrent :
        /\ running[i].pc = "summary"
        /\ running' = [running EXCEPT ![i] =
              [@ EXCEPT !.pc = "done",
                        !.result = Called("analyze", AnalysisResult(running[i].st))]]
        /\ UNCHANGED config /\ OnlyRunningAndConfig

NextConcurrent ==
    BeginAnalyze \/ CheckMinimum \/ VolatilityStep \/ GapStep \/ RangeStep \/ ReturnStep

SpecConcurrent == InitConcurrent /\ [][NextConcurrent]_vars

---------------------------------------------------------------------------
(* Specification SpecCli: one run of the command-line process.  The run is *)
(* its command line, the CSV file and the configuration file it names.     *)

\* float(text) of a CSV cell
ParseFloat(text) ==
    CASE text = "0" -> Return(0)
      [] text = "1" -> Return(1)
      [] text = "2" -> Return(2)
      [] OTHER      -> Raise("ValueError", "could not convert string to float")

\* one cell of a row appended to its series, when the row has the column;
\* d is the data so far, or the exception already raised
AppendCell(d, header, row, col, key) ==
    IF Raised(d) \/ col \notin header THEN d
    ELSE IF Raised(ParseFloat(row[col])) THEN ParseFloat(row[col])
    ELSE Return([d.value EXCEPT ![key] = Append(@, ParseFloat(row[col]).value)])

\* the body of the loop over the rows of the reader
LoadRow(d, header, row) ==
    IF "close" \notin header
    THEN Raise("ValueError", "Required column 'close' not found in CSV")
    ELSE AppendCell(AppendCell(AppendCell(AppendCell(d, header, row, "close", "closes"),
                                          header, row, "high", "highs"),
                               header, row, "low", "lows"),
                    header, row, "open", "opens")

RECURSIVE LoadRows(_, _, _)
LoadRows(d, header, rows) ==
    IF Raised(d) \/ rows = << >> THEN d
    ELSE LoadRows(LoadRow(d, header, Head(rows)), header, Tail(rows))

\* an optional series is kept only if it has a value for every row
OnlyIfAllRows(series, cl) == IF Len(series) # Len(cl) THEN None ELSE Some(series)

\* load_csv_data with the default column names
load_csv_data(file) ==
    IF ~file.exists THEN Raise("FileNotFoundError", "File not found")
    ELSE LET d == LoadRows(Return([closes |-> << >>, highs |-> << >>,
                                   lows |-> << >>, opens |-> << >>]),
                           file.header, file.rows)
         IN  IF Raised(d) THEN d
             ELSE Return([closes |-> d.value.closes,
                          highs |-> OnlyIfAllRows(d.value.highs, d.value.closes),
                          lows |-> OnlyIfAllRows(d.value.lows, d.value.closes),
                          opens |-> OnlyIfAllRows(d.value.opens, d.value.closes)])

\* Config(args.config) if args.config else Config(): the file is read only
\* if the option is given and the path exists; yaml is None for a file that
\* is no YAML
CliConfig(argv, config_file) ==
    IF argv.config /\ config_file.exists
    THEN IF config_file.yaml.some THEN ConfigInit(config_file.yaml, "")
         ELSE [exc |-> [type |-> "YAMLError", msg |-> "invalid YAML"],
               value |-> DEFAULT_CONFIG]
    ELSE ConfigInit(None, "")

Exit(status, results) == [status |-> status, results |-> results]

\* the try block of main: configuration, data, analysis, exit status
RunAnalysis(cfg, data) ==
    IF Raised(cfg) THEN Exit(2, None)
    ELSE IF Raised(data) THEN Exit(2, None)
    ELSE LET results == analyze(cfg.value, data.value.closes, data.value.highs,
                                data.value.lows, data.value.opens)
         IN  IF Raised(results) THEN Exit(2, None)
             ELSE Exit(IF ~results.value.stage_1_detected THEN 0 ELSE 1,
                       Some(results.value))

\* main: --version leaves in parse_args with status 0; a command line
\* without --csv prints the help and leaves with status 1
main(argv, csv_file, config_file) ==
    IF argv.version THEN Exit(0, None)
    ELSE IF ~argv.csv THEN Exit(1, None)
    ELSE RunAnalysis(CliConfig(argv, config_file), load_csv_data(csv_file))

Text(p) == <<"0", "1", "2">>[p + 1]
CsvRowsOf(cl) ==
    [i \in 1..Len(cl) |-> [close |-> Text(cl[i]), high |-> "2", low |-> "1",
                           open |-> Text(cl[i])]]
CsvHeaders == {{"close", "high", "low", "open"}, {"close"}, {"close", "open"},
               {"high", "low", "open"}}
CsvFiles ==
    {[exists |-> FALSE, header |-> {}, rows |-> << >>]}
    \cup {[exists |-> TRUE, header |-> h, rows |-> rows] :
            h \in CsvHeaders,
            rows \in {CsvRowsOf(cl) : cl \in StockCloses \cup {<< >>}}
                     \cup {[CsvRowsOf(<<1, 1, 1, 2>>) EXCEPT ![2].close = "n/a"],
                           [CsvRowsOf(<<1, 1, 1, 2>>) EXCEPT ![3].high = ""]}}
CliConfigFiles ==
    {[exists |-> FALSE, yaml |-> None], [exists |-> TRUE, yaml |-> None],
     [exists |-> TRUE, yaml |-> Some(SmallFile({}))],
     [exists |-> TRUE, yaml |-> Some(SmallFile({"general"}))],
     [exists |-> TRUE, yaml |-> Some(SmallFile({"gaps"}))]}
CommandLines ==
    [csv : BOOLEAN, config : BOOLEAN, json : BOOLEAN, version : BOOLEAN]

InitCli ==
    /\ args \in {[fn |-> "main", argv |-> argv, csv_file |-> c, config_file |-> y] :
                    argv \in CommandLines, c \in CsvFiles, y \in CliConfigFiles}
    /\ closes = << >> /\ highs = None /\ lows = None /\ opens = None
    /\ NothingElse

\* the process runs to its exit
Main ==
    /\ Ready /\ args.fn = "main"
    /\ result' = Called("main", main(args.argv, args.csv_file, args.config_file))
    /\ UNCHANGED <<config, args, calls, running, heap, closes, highs, lows, opens,
                   stock_signals, benchmark_signals, context, benchmarks, fetcher,
                   include_context, benchmark_data, fetch_log>>

NextCli == Main

SpecCli == InitCli /\ [][NextCli]_vars

---------------------------------------------------------------------------
(* Specification SpecFetcher: connect, disconnect, is_connected and        *)
(* fetch_daily_bars called in any order on one IBKRDataFetcher.  fetcher   *)
(* holds self.ib (None, or the IB object with its own connection state)    *)
(* and self._connected; calls is the history of the calls made, fetch_log  *)
(* the requests sent to the provider.                                      *)

\* IBKRDataFetcher.__init__
FetcherInit == [ib |-> None, _connected |-> FALSE]

\* what a connect call meets: the gateway accepts, the gateway refuses (or
\* times out), or ib_insync is not installed
ConnectOutcomes == {"accepted", "refused", "no_library"}

\* IBKRDataFetcher.connect: the fetcher after the call
ConnectState(f, outcome) ==
    CASE outcome = "no_library" -> f
      [] outcome = "accepted"   -> [ib |-> Some([open |-> TRUE]), _connected |-> TRUE]
      [] outcome = "refused"    -> [ib |-> Some([open |-> FALSE]),
                                    _connected |-> f._connected]

\* IBKRDataFetcher.connect: what the call returns or raises
ConnectResult(outcome) ==
    CASE outcome = "no_library" -> Raise("ImportError", "ib_insync library is required")
      [] outcome = "accepted"   -> Return(TRUE)
      [] outcome = "refused"    -> Raise("ConnectionError", "Failed to connect to IBKR")

\* IBKRDataFetcher.disconnect that closes the connection and keeps the flag
MutDisconnect_KeepFlag(f) ==
    IF f.ib # None /\ f._connected
    THEN [ib |-> Some([open |-> FALSE]), _connected |-> f._connected]
    ELSE f

\* IBKRDataFetcher.disconnect
disconnect(f) ==
    IF f.ib # None /\ f._connected
    THEN [ib |-> Some([open |-> FALSE]), _connected |-> FALSE]
    ELSE f

\* IBKRDataFetcher.is_connected
is_connected(f) == f._connected /\ f.ib # None

\* what the provider side does with the requests of one fetch_daily_bars:
\* on an IB object whose connection is open, the contract is unknown, the
\* history request fails, no bars come back, or bars come back; on an IB
\* object that is not connected the library raises or returns nothing
FetchAnswers(f) ==
    IF f.ib # None /\ f.ib.v.open
    THEN {"no_contract", "request_failed", "no_bars", "bars"}
    ELSE {"library_error", "no_contract"}

\* IBKRDataFetcher.fetch_daily_bars: out is what the call returns or raises,
\* requests are the requests it sent through self.ib
fetch_daily_bars(f, answer) ==
    IF ~is_connected(f)
    THEN [out |-> Raise("ConnectionError", "Not connected to IBKR. Call connect() first."),
          requests |-> << >>]
    ELSE CASE answer = "library_error" ->
                [out |-> Raise("ConnectionError", "Not connected"),
                 requests |-> <<"qualifyContracts">>]
           [] answer = "no_contract" ->
                [out |-> Raise("ValueError", "Could not find contract"),
                 requests |-> <<"qualifyContracts">>]
           [] answer = "request_failed" ->
                [out |-> Raise("ValueError", "Failed to fetch data"),
                 requests |-> <<"qualifyContracts", "reqHistoricalData">>]
           [] answer = "no_bars" ->
                [out |-> Raise("ValueError", "No data returned"),
                 requests |-> <<"qualifyContracts", "reqHistoricalData">>]
           [] answer = "bars" ->
                [out |-> Return(Bars(<<1, 1, 1, 2>>)),
                 requests |-> <<"qualifyContracts", "reqHistoricalData">>]

InitFetcher ==
    /\ fetcher = FetcherInit
    /\ calls = << >> /\ fetch_log = << >>
    /\ result = NotCalled /\ args = NoArgs
    /\ config = DEFAULT_CONFIG /\ benchmarks = AnalyzerInit(None)
    /\ closes = << >> /\ highs = None /\ lows = None /\ opens = None
    /\ stock_signals = << >> /\ benchmark_signals = EmptyDict /\ context = NotCalled
    /\ include_context = TRUE /\ benchmark_data = NotCalled
    /\ running = << >> /\ heap = NoHeap

OnlyTheFetcher ==
    UNCHANGED <<config, args, running, heap, closes, highs, lows, opens, stock_signals,
                benchmark_signals, context, benchmarks, include_context,
                benchmark_data>>

CallMade(op, outcome) == [op |-> op, outcome |-> outcome]

\* fetcher.connect(), also made by __enter__
Connect ==
    /\ Len(calls) < MaxCalls
    /\ \E outcome \in ConnectOutcomes :
        /\ fetcher' = ConnectState(fetcher, outcome)
        /\ result' = Called("connect", ConnectResult(outcome))
        /\ calls' = Append(calls, CallMade("connect", outcome))
    /\ UNCHANGED fetch_log /\ OnlyTheFetcher

\* fetcher.disconnect(), also made by __exit__
Disconnect ==
    /\ Len(calls) < MaxCalls
    /\ fetcher' = disconnect(fetcher)
    /\ result' = Called("disconnect", Return(None))
    /\ calls' = Append(calls, CallMade("disconnect", "returned"))
    /\ UNCHANGED fetch_log /\ OnlyTheFetcher

IsConnected ==
    /\ Len(calls) < MaxCalls
    /\ result' = Called("is_connected", Return(is_connected(fetcher)))
    /\ calls' = Append(calls, CallMade("is_connected", "returned"))
    /\ UNCHANGED <<fetcher, fetch_log>> /\ OnlyTheFetcher

FetchDailyBars ==
    /\ Len(calls) < MaxCalls
    /\ \E answer \in FetchAnswers(fetcher) :
        /\ result' = Called("fetch_daily_bars", fetch_daily_bars(fetcher, answer).out)
        /\ fetch_log' = fetch_log \o fetch_daily_bars(fetcher, answer).requests
        /\ calls' = Append(calls, CallMade("fetch_daily_bars", answer))
    /\ UNCHANGED fetcher /\ OnlyTheFetcher

NextFetcher == Connect \/ Disconnect \/ IsConnected \/ FetchDailyBars

SpecFetcher == InitFetcher /\ [][NextFetcher]_vars

---------------------------------------------------------------------------
(* Specification SpecShared: Config instances built and reloaded in one    *)
(* process, with the objects they are made of.  heap.dicts are the section *)
(* mappings by identity (their position is their address) and              *)
(* heap.instances the self.config of each instance: section -> the address *)
(* of a mapping (ObjectAt) or a value that is no mapping (NoObject).  The   *)
(* mappings of DEFAULT_CONFIG and of STOCK_SPECIFIC_CONFIG are the first    *)
(* objects of the heap.                                                    *)

ObjectAt(a) == [isdict |-> TRUE, at |-> a]
NoObject == [isdict |-> FALSE, at |-> 0]

DefaultSections == <<"volatility", "gaps", "ranges", "general">>

\* the class attribute DEFAULT_CONFIG and the module table, by address
DefaultTable ==
    [volatility |-> ObjectAt(1), gaps |-> ObjectAt(2), ranges |-> ObjectAt(3),
     general |-> ObjectAt(4)]
StockTable ==
    [TSM |-> << Item("volatility", ObjectAt(5)), Item("ranges", ObjectAt(6)),
                Item("gaps", ObjectAt(7)) >>]
SharedHeap ==
    [dicts |-> [i \in 1..Len(DefaultSections) |-> DEFAULT_CONFIG[DefaultSections[i]].items]
               \o [i \in 1..Len(STOCK_SPECIFIC_CONFIG.TSM) |->
                      STOCK_SPECIFIC_CONFIG.TSM[i].values.items],
     instances |-> << >>]

\* the configuration an instance or a table holds, by value
Deref(h, cfg) ==
    [s \in DOMAIN cfg |->
        IF cfg[s].isdict THEN SectionDict(h.dicts[cfg[s].at]) ELSE NotADict]

\* copy.copy in the place of copy.deepcopy: the sections are shared
MutDeepcopy_Shallow(h, table) == [heap |-> h, config |-> table]

\* copy.deepcopy(self.DEFAULT_CONFIG): a new object for every section
deepcopy(h, table) ==
    [heap |-> [h EXCEPT !.dicts =
                  @ \o [i \in 1..Len(DefaultSections) |->
                           h.dicts[table[DefaultSections[i]].at]]],
     config |-> [sec \in DOMAIN table |->
                   ObjectAt(Len(h.dicts)
                            + CHOOSE i \in 1..Len(DefaultSections) :
                                  DefaultSections[i] = sec)]]

\* yaml.safe_load: the parsed layer, every mapping of it a new object
RECURSIVE safe_load(_, _)
safe_load(h, layer) ==
    IF layer = << >> THEN [heap |-> h, layer |-> << >>]
    ELSE IF Head(layer).values.isdict
    THEN LET rest == safe_load([h EXCEPT !.dicts = Append(@, Head(layer).values.items)],
                               Tail(layer))
         IN  [heap |-> rest.heap,
              layer |-> <<Item(Head(layer).section, ObjectAt(Len(h.dicts) + 1))>>
                        \o rest.layer]
    ELSE LET rest == safe_load(h, Tail(layer))
         IN  [heap |-> rest.heap,
              layer |-> <<Item(Head(layer).section, NoObject)>> \o rest.layer]

\* Config._merge_config on objects: update writes into the section object
\* of the instance, the assignment stores the layer's own object
RECURSIVE MergeObjects(_, _, _)
MergeObjects(h, cfg, user_config) ==
    IF user_config = << >> THEN [exc |-> NoError, heap |-> h, config |-> cfg]
    ELSE LET section == Head(user_config).section
             values  == Head(user_config).values
         IN  IF section \in DOMAIN cfg /\ values.isdict
             THEN IF cfg[section].isdict
                  THEN MergeObjects(
                           [h EXCEPT !.dicts[cfg[section].at] =
                               DictUpdate(@, h.dicts[values.at])],
                           cfg, Tail(user_config))
                  ELSE [exc |-> [type |-> "AttributeError", msg |-> "update"],
                        heap |-> h, config |-> cfg]
             ELSE MergeObjects(
                      h,
                      [s \in DOMAIN cfg \cup {section} |->
                          IF s = section THEN values ELSE cfg[s]],
                      Tail(user_config))

\* Config.load_from_file on objects
LoadObjects(h, cfg, file) ==
    IF file # << >>
    THEN MergeObjects(safe_load(h, file).heap, cfg, safe_load(h, file).layer)
    ELSE [exc |-> NoError, heap |-> h, config |-> cfg]

\* Config.__init__ once the defaults are copied
InitFromCopy(copied, file, symbol) ==
    LET stock == IF symbol # "" /\ Upper(symbol) \in DOMAIN StockTable
                 THEN MergeObjects(copied.heap, copied.config, StockTable[Upper(symbol)])
                 ELSE [exc |-> NoError, heap |-> copied.heap, config |-> copied.config]
    IN  IF Raised(stock) THEN stock
        ELSE IF file.some THEN LoadObjects(stock.heap, stock.config, file.v)
        ELSE stock

\* Config.__init__ on objects
ConfigObjects(h, file, symbol) == InitFromCopy(deepcopy(h, DefaultTable), file, symbol)

SharedFiles ==
    {None,
     Some(<< Item("gaps", NotADict), Item("custom", SectionDict([extra |-> 1])) >>)}
SharedLayers ==
    {<< Item("volatility", SectionDict([threshold_multiplier |-> 7])),
        Item("custom", SectionDict([extra |-> 2])) >>,
     << Item("gaps", SectionDict([threshold_percent |-> 9])) >>}

InitShared ==
    /\ heap = SharedHeap
    /\ calls = << >>
    /\ result = NotCalled /\ args = NoArgs
    /\ config = DEFAULT_CONFIG /\ benchmarks = AnalyzerInit(None)
    /\ closes = << >> /\ highs = None /\ lows = None /\ opens = None
    /\ stock_signals = << >> /\ benchmark_signals = EmptyDict /\ context = NotCalled
    /\ fetcher = None /\ include_context = TRUE
    /\ benchmark_data = NotCalled /\ fetch_log = << >>
    /\ running = << >>

OnlyTheHeap ==
    UNCHANGED <<config, running, closes, highs, lows, opens, stock_signals,
                benchmark_signals, context, benchmarks, fetcher, include_context,
                benchmark_data, fetch_log>>

\* Config(config_path, symbol): a constructor that raises leaves no instance
NewConfig ==
    /\ Len(heap.instances) < MaxInstances
    /\ \E file \in SharedFiles, symbol \in Symbols :
        /\ args' = [fn |-> "Config", file |-> file, symbol |-> symbol]
        /\ heap' = [dicts |-> ConfigObjects(heap, file, symbol).heap.dicts,
                    instances |->
                        IF Raised(ConfigObjects(heap, file, symbol)) THEN heap.instances
                        ELSE Append(heap.instances,
                                    ConfigObjects(heap, file, symbol).config)]
        /\ result' = Called("Config", [exc |-> ConfigObjects(heap, file, symbol).exc])
    /\ UNCHANGED calls /\ OnlyTheHeap

\* instance.load_from_file(path) on one of the instances
Reload ==
    /\ Len(calls) < MaxLoads
    /\ \E i \in DOMAIN heap.instances, layer \in SharedLayers :
        /\ args' = [fn |-> "load_from_file", file |-> layer, instance |-> i]
        /\ heap' = [dicts |-> LoadObjects(heap, heap.instances[i], layer).heap.dicts,
                    instances |->
                        [heap.instances EXCEPT
                            ![i] = LoadObjects(heap, heap.instances[i], layer).config]]
        /\ result' = Called("load_from_file",
                            [exc |-> LoadObjects(heap, heap.instances[i], layer).exc])
        /\ calls' = Append(calls, [op |-> "load_from_file", instance |-> i])
    /\ OnlyTheHeap

NextShared == NewConfig \/ Reload

SpecShared == InitShared /\ [][NextShared]_vars

---------------------------------------------------------------------------
(* Properties of analyze, checked under SpecAnalyze.                       *)

SignalOrder == <<"volatility_spike", "price_gap", "wide_range">>

\* analyze was called and returned an AnalysisResult
AnalyzeReturned == result.op = "analyze" /\ ~Raised(result.out)

\* the minimum could be read and the close series is long enough
PassesMinimum ==
    /\ ~Raised(ConfigGet(config, "general", "min_data_points"))
    /\ Len(closes) >= ConfigGet(config, "general", "min_data_points").value

\* the outcome of one detector alone, on the inputs of the current call
DetectorOutcome(name) ==
    CASE name = "volatility_spike" -> VolatilityCheck(config, closes)
      [] name = "price_gap"        -> GapCheck(config, closes, opens.v)
      [] name = "wide_range"       -> RangeCheck(config, highs.v, lows.v, closes)

\* the signals whose required series were supplied with the closes' length
Supplied ==
    {"volatility_spike"}
    \cup (IF opens # None /\ Len(opens.v) = Len(closes) THEN {"price_gap"} ELSE {})
    \cup (IF highs # None /\ lows # None /\ Len(highs.v) = Len(closes)
             /\ Len(lows.v) = Len(closes)
          THEN {"wide_range"} ELSE {})

\* C1: whenever analyze returns, flags is the subsequence of
\* [volatility_spike, price_gap, wide_range] of the signals whose entry has
\* detected = true, and stage_1_detected is true exactly when flags is
\* non-empty.
C1_FlagsAreDetectedSignals ==
    AnalyzeReturned =>
        LET r == result.out.value
        IN  /\ r.flags = Filter(SignalOrder,
                                {n \in DOMAIN r.signals.val : r.signals.val[n].detected},
                                << >>)
            /\ r.stage_1_detected = (r.flags # << >>)

C1_Witness ==
    /\ AnalyzeReturned
    /\ result.out.value.flags = <<"volatility_spike", "wide_range">>
    /\ DictHas(result.out.value.signals, "price_gap")

\* C2 as stated: analyze aborts exactly when len(closes) is below
\* general.min_data_points, and nothing else (a missing or unreadable
\* configuration section or key included) aborts the call.
C2_AbortsOnlyOnShortSeries ==
    result.op = "analyze" =>
        (Raised(result.out) <=>
            (/\ ~Raised(ConfigGet(config, "general", "min_data_points"))
             /\ Len(closes) < ConfigGet(config, "general", "min_data_points").value))

\* C2, amended: analyze aborts exactly when general.min_data_points cannot
\* be read from the Configuration or len(closes) is below it; no detector
\* failure, unreadable detector section or malformed optional series aborts.
C2_AbortsOnMinimumOnly ==
    result.op = "analyze" => (Raised(result.out) <=> ~PassesMinimum)

C2_Witness ==
    /\ result.op = "analyze"
    /\ Raised(result.out)
    /\ Raised(ConfigGet(config, "general", "min_data_points"))
    /\ Len(closes) = MaxLen

\* C3: when a detector fails inside analyze, its entry is {detected: false,
\* error: message}, analyze still returns, and the entry of every other
\* signal is the one its own detector yields on these inputs.
C3_FailureIsolation ==
    (result.op = "analyze" /\ PassesMinimum) =>
        /\ ~Raised(result.out)
        /\ \A n \in Supplied :
             /\ DictHas(result.out.value.signals, n)
             /\ result.out.value.signals.val[n] =
                  IF Raised(DetectorOutcome(n))
                  THEN [detected |-> FALSE, error |-> DetectorOutcome(n).exc.msg]
                  ELSE [detected |-> DetectorOutcome(n).value.detected,
                        details  |-> DetectorOutcome(n).value.details]

C3_Witness ==
    /\ AnalyzeReturned
    /\ Raised(DetectorOutcome("volatility_spike"))
    /\ result.out.value.signals.val["volatility_spike"] =
          [detected |-> FALSE, error |-> "Prices must be positive"]
    /\ result.out.value.flags = <<"price_gap">>
    /\ DictHas(result.out.value.signals, "wide_range")

\* C4: whenever analyze returns, signals has the key volatility_spike, the
\* key price_gap exactly when opens was supplied with the closes' length, and
\* the key wide_range exactly when highs and lows both were.
C4_SignalsPresent ==
    AnalyzeReturned => DOMAIN result.out.value.signals.val = Supplied

C4_Witness ==
    /\ AnalyzeReturned
    /\ opens # None /\ Len(opens.v) # Len(closes)
    /\ highs # None /\ lows # None
    /\ DOMAIN result.out.value.signals.val = {"volatility_spike", "wide_range"}

\* C5: every entry of signals has exactly one of details and error; an entry
\* has error only if its detector failed in this call, and then detected is
\* false and its name is not in flags.
C5_DetailsOrError ==
    AnalyzeReturned =>
        \A n \in DOMAIN result.out.value.signals.val :
            LET e == result.out.value.signals.val[n]
            IN  /\ DOMAIN e \in {{"detected", "details"}, {"detected", "error"}}
                /\ "error" \in DOMAIN e =>
                      /\ Raised(DetectorOutcome(n))
                      /\ e.detected = FALSE
                      /\ n \notin Range(result.out.value.flags)

C5_Witness ==
    /\ AnalyzeReturned
    /\ DictHas(result.out.value.signals, "wide_range")
    /\ "error" \in DOMAIN result.out.value.signals.val["wide_range"]
    /\ "details" \in DOMAIN result.out.value.signals.val["volatility_spike"]
    /\ result.out.value.signals.val["volatility_spike"].detected

---------------------------------------------------------------------------
(* Properties of the market context, checked under SpecContext.            *)

\* analyze_context was called and returned a MarketContext
ContextReturned == context.op = "analyze_context" /\ ~Raised(context.out)

\* the benchmarks of benchmark_signals with a non-empty flag sequence, and
\* those with non-null flag data
NonEmptyFlags ==
    {b \in DOMAIN benchmark_signals.val :
        benchmark_signals.val[b] # None /\ benchmark_signals.val[b].v # << >>}
NonNull == {b \in DOMAIN benchmark_signals.val : benchmark_signals.val[b] # None}

\* benchmark_signals with its null entries left out
WithoutNulls ==
    [keys |-> Filter(benchmark_signals.keys, NonNull, << >>),
     val  |-> [b \in NonNull |-> benchmark_signals.val[b]]]

\* C6: the classification rules of analyze_context: normal / no affected
\* benchmark / score 0 for empty stock flags; otherwise stock_specific and
\* score 0 with no affected benchmark, broad_market and score affected/total
\* with two or more, sector and score 1/total with exactly one; and
\* benchmarks_affected lists the benchmarks with a non-empty flag sequence.
C6_ClassificationRules ==
    context.op = "analyze_context" =>
        /\ ~Raised(context.out)
        /\ LET c == context.out.value
               n == Cardinality(NonEmptyFlags)
               total == Cardinality(NonNull)
           IN  IF stock_signals = << >>
               THEN /\ c.context_type = "normal"
                    /\ c.benchmarks_affected = << >>
                    /\ c.correlation_score = RInt(0)
               ELSE /\ c.benchmarks_affected =
                          Filter(benchmark_signals.keys, NonEmptyFlags, << >>)
                    /\ n = 0 => c.context_type = "stock_specific"
                                /\ c.correlation_score = RInt(0)
                    /\ n >= 2 => c.context_type = "broad_market"
                                 /\ c.correlation_score = Rat(n, total)
                    /\ n = 1 => c.context_type = "sector"
                                /\ c.correlation_score = Rat(1, total)

C6_Witness ==
    /\ ContextReturned
    /\ context.out.value.context_type = "broad_market"
    /\ context.out.value.benchmarks_affected = <<"SPY", "DIA">>
    /\ context.out.value.correlation_score = Rat(2, 3)

\* C7: a benchmark with null flag data counts neither as affected nor in
\* total: type, affected benchmarks and score are those of the mapping with
\* the null entries left out, and the score's denominator is the number of
\* non-null benchmarks.
C7_NullsExcluded ==
    context.op = "analyze_context" =>
        /\ ~Raised(context.out)
        /\ context.out = analyze_context("AAPL", stock_signals, WithoutNulls)
        /\ Range(context.out.value.benchmarks_affected) \subseteq NonNull
        /\ (stock_signals # << >> /\ NonNull # {}) =>
              context.out.value.correlation_score =
                  Rat(Cardinality(NonEmptyFlags), Cardinality(NonNull))

C7_Witness ==
    /\ ContextReturned
    /\ stock_signals # << >>
    /\ benchmark_signals.keys = <<"SPY", "QQQ", "DIA">>
    /\ benchmark_signals.val["SPY"] = None
    /\ benchmark_signals.val["DIA"] = Some(<< >>)
    /\ context.out.value.context_type = "sector"
    /\ context.out.value.correlation_score = Rat(1, 2)

\* analyze_with_context was called and reported a market context
ContextReported ==
    /\ result.op = "analyze_with_context"
    /\ ~Raised(result.out)
    /\ result.out.value.market_context # None

\* the fetch_daily_bars calls that returned data
Available == {i \in DOMAIN fetcher.v : ~Raised(fetcher.v[i])}

\* C8 as stated: the correlation_score analyze_with_context reports is the
\* number of benchmarks showing signals over the number of benchmarks whose
\* data was available; a benchmark whose fetch failed is in neither.
C8_ScoreOverAvailable ==
    ContextReported =>
        result.out.value.market_context.v.correlation_score =
            IF Available = {} THEN RInt(0)
            ELSE Rat(Len(result.out.value.market_context.v.benchmarks_affected),
                     Cardinality(Available))

\* get_benchmark_data was called
DataFetched == benchmark_data.op = "get_benchmark_data"

\* C9: get_benchmark_data fetches every configured benchmark once, in list
\* order, whatever the earlier fetches did, never raises, and returns one
\* entry per benchmark: the fetched data, or null when that fetch failed.
C9_EveryBenchmarkFetched ==
    DataFetched =>
        /\ benchmark_data.out.exc = NoError
        /\ fetch_log = [i \in 1..Len(benchmarks) |->
                           [symbol |-> benchmarks[i], days |-> MaxLen]]
        /\ benchmark_data.out.data.keys = benchmarks
        /\ \A i \in 1..Len(benchmarks) :
              benchmark_data.out.data.val[benchmarks[i]] =
                  IF Raised(fetcher.v[i]) THEN None ELSE Some(fetcher.v[i].value)

C9_Witness ==
    /\ DataFetched
    /\ Len(benchmarks) = 3
    /\ Raised(fetcher.v[1]) /\ ~Raised(fetcher.v[2]) /\ Raised(fetcher.v[3])
    /\ benchmark_data.out.data.val[benchmarks[1]] = None
    /\ benchmark_data.out.data.val[benchmarks[2]] # None
    /\ Len(fetch_log) = 3

\* C10: analyze_context returns for every input, an empty mapping and a
\* mapping of nulls included, and its correlation_score is within [0, 1].
C10_ScoreInUnitInterval ==
    context.op = "analyze_context" =>
        /\ ~Raised(context.out)
        /\ RLe(RInt(0), context.out.value.correlation_score)
        /\ RLe(context.out.value.correlation_score, RInt(1))

C10_Witness ==
    /\ ContextReturned
    /\ stock_signals # << >>
    /\ benchmark_signals.keys # << >>
    /\ NonNull = {}
    /\ context.out.value.context_type = "stock_specific"

---------------------------------------------------------------------------
(* Properties of the detectors, checked under SpecDetectors.               *)

\* the error kinds of the detectors: both are ValueError, told apart by
\* what the message says
InsufficientData(r) ==
    /\ Raised(r) /\ r.exc.type = "ValueError"
    /\ r.exc.msg \in {"Need at least lookback_period + 1 prices for analysis",
                      "Need at least 2 prices to calculate returns",
                      "Need at least 2 closes and 1 open for gap detection",
                      "Opens and closes lists must have same length",
                      "Need at least period data points",
                      "Need at least lookback_period + 1 data points"}
InvalidPrice(r) ==
    /\ Raised(r) /\ r.exc.type = "ValueError"
    /\ r.exc.msg \in {"Prices must be positive",
                      "High must be greater than or equal to low"}

\* a direct call of the detector fn has ended
DetectorCalled(fn) == result.op = fn
DetectorReturned(fn) == result.op = fn /\ ~Raised(result.out)

AllPositive(prices) == \A i \in DOMAIN prices : prices[i] > 0
SomeNonPositive(prices) == \E i \in DOMAIN prices : prices[i] <= 0

\* the most recent return of a series of at least two positive prices
LastReturn(prices) ==
    Rat(prices[Len(prices)] - prices[Len(prices) - 1], prices[Len(prices) - 1])

\* the window w is the L returns that immediately precede the last of returns
IsPrecedingWindow(w, returns, L) ==
    /\ Len(w) = L
    /\ \A k \in 1..L : w[k] = returns[Len(returns) - L - 1 + k]

\* C11 (as stated): for strictly positive closes of length >= lookback_period + 1
\* detect_volatility_spike succeeds and its historical window is exactly the
\* lookback_period returns that immediately precede the most recent return;
\* a series shorter than lookback_period + 1 fails with InsufficientData.
C11_HistoricalWindow ==
    DetectorCalled("detect_volatility_spike") =>
        /\ Len(closes) < args.lookback_period + 1 => InsufficientData(result.out)
        /\ (Len(closes) >= args.lookback_period + 1 /\ AllPositive(closes)) =>
              /\ ~Raised(result.out)
              /\ IsPrecedingWindow(
                     HistoricalReturns(calculate_daily_returns(closes).value,
                                       args.lookback_period),
                     calculate_daily_returns(closes).value,
                     args.lookback_period)

\* the square of the threshold the call compares with
ThresholdSq(d) == d.threshold_sq
\* the square of abs(recent_return)
RecentSq(d) == RSq(d.recent_return)

\* C12: detect_volatility_spike reports detected = true exactly when
\* abs(recent_return) > historical_volatility * threshold_multiplier (strict);
\* when that threshold is 0, spike_magnitude is 0 and detected is true iff
\* recent_return is non-zero; when it is > 0, spike_magnitude is
\* abs(recent_return) / threshold.
C12_StrictThreshold ==
    DetectorReturned("detect_volatility_spike") =>
        LET d == result.out.value.details
        IN  /\ d.recent_return = LastReturn(closes)
            /\ d.threshold_sq =
                  RMul(d.historical_volatility_sq,
                       RInt(args.threshold_multiplier * args.threshold_multiplier))
            /\ result.out.value.detected = RLt(d.threshold_sq, RecentSq(d))
            /\ d.threshold_sq.n = 0 =>
                  /\ d.spike_magnitude_sq = RInt(0)
                  /\ result.out.value.detected = (d.recent_return.n # 0)
            /\ d.threshold_sq.n > 0 =>
                  RMul(d.spike_magnitude_sq, d.threshold_sq) = RecentSq(d)

\* a spike against a zero threshold: detected, with magnitude 0
C12_Witness ==
    /\ DetectorReturned("detect_volatility_spike")
    /\ result.out.value.details.threshold_sq.n = 0
    /\ result.out.value.details.recent_return.n # 0
    /\ result.out.value.detected
    /\ result.out.value.details.spike_magnitude_sq = RInt(0)

\* the square of threshold_multiplier * historical_volatility of the window
\* the call takes from a series of positive prices
WindowThresholdSq(prices, threshold_multiplier, lookback_period) ==
    RMul(calculate_volatility(
             HistoricalReturns(calculate_daily_returns(prices).value,
                               lookback_period)).value,
         RInt(threshold_multiplier * threshold_multiplier))

\* the final close's return exceeds the threshold of the window before it
ReturnExceedsThreshold ==
    /\ DetectorReturned("detect_volatility_spike")
    /\ RLt(WindowThresholdSq(closes, args.threshold_multiplier, args.lookback_period),
           RSq(LastReturn(closes)))

\* C13 (as stated): whenever the final close has a return whose absolute value
\* exceeds threshold_multiplier x historical_volatility of the preceding
\* window, detect_volatility_spike returns detected = true and
\* spike_magnitude > 1.
C13_ExceedingReturnMagnitude ==
    ReturnExceedsThreshold =>
        /\ result.out.value.detected
        /\ RLt(RInt(1), result.out.value.details.spike_magnitude_sq)

\* C13 (amended): whenever the final close has a return whose absolute value
\* exceeds threshold_multiplier x historical_volatility of the window the
\* call takes, detected = true, and spike_magnitude is > 1 when that
\* threshold is > 0 and is 0 when the threshold is 0.
C13_ExceedingReturnDetected ==
    ReturnExceedsThreshold =>
        /\ result.out.value.detected
        /\ IF result.out.value.details.threshold_sq.n > 0
           THEN RLt(RInt(1), result.out.value.details.spike_magnitude_sq)
           ELSE result.out.value.details.spike_magnitude_sq = RInt(0)

\* a return above a positive threshold: detected with magnitude > 1
C13_Witness ==
    /\ ReturnExceedsThreshold
    /\ result.out.value.details.threshold_sq.n > 0
    /\ result.out.value.detected
    /\ RLt(RInt(1), result.out.value.details.spike_magnitude_sq)

\* C14 (as stated): detect_volatility_spike fails with InvalidPrice, returning
\* no result, whenever any price of the close series is non-positive, at any
\* index.
C14_NonPositiveIsInvalidPrice ==
    (DetectorCalled("detect_volatility_spike") /\ SomeNonPositive(closes)) =>
        InvalidPrice(result.out)

\* C14 (amended): on a close series of at least lookback_period + 1 prices,
\* detect_volatility_spike fails with InvalidPrice whenever any price is
\* non-positive, at any index; a shorter series fails with InsufficientData
\* whatever its prices are.
C14_InvalidPriceAfterLength ==
    DetectorCalled("detect_volatility_spike") =>
        /\ (Len(closes) >= args.lookback_period + 1 /\ SomeNonPositive(closes)) =>
              InvalidPrice(result.out)
        /\ Len(closes) < args.lookback_period + 1 => InsufficientData(result.out)

\* the only non-positive price is older than every return of the window
C14_Witness ==
    /\ DetectorCalled("detect_volatility_spike")
    /\ Len(closes) = args.lookback_period + 3
    /\ closes[1] <= 0 /\ AllPositive(Tail(closes))
    /\ InvalidPrice(result.out)

\* C15: for strictly positive previous_close and current_open, detect_gap
\* returns gap_percent = (current_open - previous_close) / previous_close * 100,
\* detected = (abs(gap_percent) >= threshold_percent), boundary inclusive, and
\* direction "up" when gap_percent > 0 and "down" otherwise (a gap of exactly
\* zero is "down"); when either price is non-positive it fails with
\* InvalidPrice.
C15_GapOfTwoPrices ==
    DetectorCalled("detect_gap") =>
        IF args.previous_close > 0 /\ args.current_open > 0
        THEN /\ ~Raised(result.out)
             /\ RMul(result.out.value.details.gap_percent, RInt(args.previous_close))
                   = RInt((args.current_open - args.previous_close) * 100)
             /\ result.out.value.detected
                   = (Abs(args.current_open - args.previous_close) * 100
                         >= args.threshold_percent * args.previous_close)
             /\ result.out.value.details.gap_direction
                   = IF args.current_open > args.previous_close THEN "up" ELSE "down"
        ELSE InvalidPrice(result.out)

\* a gap of exactly the threshold: detected, and it is a gap up
C15_Witness ==
    /\ DetectorReturned("detect_gap")
    /\ args.threshold_percent > 0
    /\ result.out.value.details.gap_percent = RInt(args.threshold_percent)
    /\ result.out.value.detected
    /\ result.out.value.details.gap_direction = "up"

\* C16: detect_gap_from_prices fails with InsufficientData when the close
\* series has fewer than 2 elements, the open series has fewer than 1, or the
\* two lengths differ; otherwise its result equals detect_gap(second-to-last
\* close, last open, threshold_percent), whatever the other elements are.
C16_GapOfMostRecentDay ==
    DetectorCalled("detect_gap_from_prices") =>
        IF Len(closes) < 2 \/ Len(opens.v) < 1 \/ Len(opens.v) # Len(closes)
        THEN InsufficientData(result.out)
        ELSE result.out = detect_gap(closes[Len(closes) - 1], opens.v[Len(opens.v)],
                                     args.threshold_percent)

\* a detected gap between a second-to-last close and a last open that differ
\* from the last close and from the earlier opens
C16_Witness ==
    /\ DetectorReturned("detect_gap_from_prices")
    /\ Len(closes) >= 3
    /\ closes[Len(closes)] # closes[Len(closes) - 1]
    /\ opens.v[Len(closes) - 1] # opens.v[Len(closes)]
    /\ result.out.value.detected

\* day i of the high/low/close series of the call is a valid day
ValidDay(i) ==
    /\ highs.v[i] > 0 /\ lows.v[i] > 0 /\ closes[i] > 0
    /\ highs.v[i] >= lows.v[i]
AllDaysValid == \A i \in DOMAIN closes : ValidDay(i)

\* (high - low) / close * 100 of the valid day i
DayRange(i) == Rat((highs.v[i] - lows.v[i]) * 100, closes[i])

\* the ranges of the L days immediately before the most recent day
PrecedingRanges(L) == [k \in 1..L |-> DayRange(Len(closes) - 1 - L + k)]

\* C17: for valid equal-length series of length >= lookback_period + 1,
\* detect_wide_range computes average_range as the arithmetic mean of the
\* per-day ranges of exactly the lookback_period days immediately preceding
\* the most recent day, threshold = average_range * (1 + threshold_percent/100)
\* and detected = (current_range > threshold), strict; a shorter series fails
\* with InsufficientData.
C17_AverageOfPrecedingDays ==
    DetectorCalled("detect_wide_range") =>
        /\ Len(closes) < args.lookback_period + 1 => InsufficientData(result.out)
        /\ (Len(closes) >= args.lookback_period + 1 /\ AllDaysValid) =>
              /\ ~Raised(result.out)
              /\ result.out.value.details.current_range = DayRange(Len(closes))
              /\ RMul(result.out.value.details.average_range,
                      RInt(args.lookback_period))
                    = RSum(PrecedingRanges(args.lookback_period))
              /\ result.out.value.details.threshold
                    = RMul(result.out.value.details.average_range,
                           Rat(100 + args.threshold_percent, 100))
              /\ result.out.value.detected
                    = RLt(result.out.value.details.threshold,
                          result.out.value.details.current_range)

\* a current range equal to a positive threshold is not detected, on a
\* series with a day older than the window whose range is another one
C17_Witness ==
    /\ DetectorReturned("detect_wide_range") /\ AllDaysValid
    /\ Len(closes) >= args.lookback_period + 2
    /\ DayRange(1) # DayRange(Len(closes) - 1)
    /\ result.out.value.details.threshold.n > 0
    /\ result.out.value.details.current_range = result.out.value.details.threshold
    /\ ~result.out.value.detected

\* C18 (as stated, for the series that pass the length check): detect_wide_range
\* fails with InvalidPrice whenever any single day of the supplied series has
\* high < low or a non-positive high, low or close, whichever day of the
\* series it is.
C18_AnyInvalidDay ==
    (/\ DetectorCalled("detect_wide_range")
     /\ Len(closes) >= args.lookback_period + 1
     /\ ~AllDaysValid) =>
        InvalidPrice(result.out)

\* C19 (as stated): whenever detect_wide_range reports detected = true, the
\* reported range_expansion is > 0; range_expansion is
\* (current_range/threshold - 1) * 100 when threshold > 0 and 0 otherwise.
C19_DetectedExpands ==
    DetectorReturned("detect_wide_range") =>
        /\ result.out.value.detected =>
              RLt(RInt(0), result.out.value.details.range_expansion)
        /\ IF result.out.value.details.threshold.n > 0
           THEN RMul(RAdd(RDiv(result.out.value.details.range_expansion, RInt(100)),
                          RInt(1)),
                     result.out.value.details.threshold)
                   = result.out.value.details.current_range
           ELSE result.out.value.details.range_expansion = RInt(0)

\* C19 (amended): whenever detect_wide_range reports detected = true and the
\* threshold is > 0, range_expansion is > 0; range_expansion is
\* (current_range/threshold - 1) * 100 when threshold > 0 and 0 otherwise,
\* also on a detected day.
C19_DetectedExpandsAboveZero ==
    DetectorReturned("detect_wide_range") =>
        /\ (result.out.value.detected /\ result.out.value.details.threshold.n > 0) =>
              RLt(RInt(0), result.out.value.details.range_expansion)
        /\ IF result.out.value.details.threshold.n > 0
           THEN RMul(RAdd(RDiv(result.out.value.details.range_expansion, RInt(100)),
                          RInt(1)),
                     result.out.value.details.threshold)
                   = result.out.value.details.current_range
           ELSE result.out.value.details.range_expansion = RInt(0)

\* a day detected against a positive threshold, with a positive expansion
C19_Witness ==
    /\ DetectorReturned("detect_wide_range")
    /\ result.out.value.detected
    /\ result.out.value.details.threshold.n > 0
    /\ RLt(RInt(0), result.out.value.details.range_expansion)

---------------------------------------------------------------------------
(* Properties of Config, checked under SpecConfig.                         *)

Constructed == result.op = "Config"

\* what a layer says about section/key: None, or Some(the value it names)
LayerValue(layer, section, key) ==
    IF \E i \in DOMAIN layer :
          /\ layer[i].section = section /\ layer[i].values.isdict
          /\ key \in DOMAIN layer[i].values.items
    THEN Some((CHOOSE it \in Range(layer) :
                  /\ it.section = section /\ it.values.isdict
                  /\ key \in DOMAIN it.values.items).values.items[key])
    ELSE None

\* the layers of the construction in args
UserLayerOf(a) == IF a.file.some THEN a.file.v ELSE << >>
InstrumentLayerOf(a) ==
    IF a.symbol \in {"tsm", "TSM"} THEN STOCK_SPECIFIC_CONFIG.TSM ELSE << >>
DefaultValue(section, key) ==
    IF section \in DOMAIN DEFAULT_CONFIG /\ key \in DOMAIN DEFAULT_CONFIG[section].items
    THEN Some(DEFAULT_CONFIG[section].items[key])
    ELSE None

\* user value, else instrument value, else default
ByPrecedence(user, instrument, default) ==
    IF user.some THEN user ELSE IF instrument.some THEN instrument ELSE default

\* what reading section/key of the constructed Config gives: None when the
\* read fails
ValueRead(section, key) ==
    IF Raised(ConfigGet(config, section, key)) THEN None
    ELSE Some(ConfigGet(config, section, key).value)

\* the user layer gives the section as a value that is no mapping
ReplacedByNonMapping(a, section) ==
    \E i \in DOMAIN UserLayerOf(a) :
        UserLayerOf(a)[i].section = section /\ ~UserLayerOf(a)[i].values.isdict

\* C20 (as stated): after construction with any symbol and any user overrides,
\* the value of every section/key is the user-supplied value if the user layer
\* names that key, else the value of the instrument table entry under the
\* upper-cased symbol if that entry names it, else the default; a symbol with
\* no table entry is a non-error miss that leaves the defaults.
C20_LayerPrecedence ==
    Constructed =>
        /\ ~Raised(result.out)
        /\ \A section \in Range(SectionNames), key \in KeyNames :
              ValueRead(section, key)
                 = ByPrecedence(LayerValue(UserLayerOf(args), section, key),
                                LayerValue(InstrumentLayerOf(args), section, key),
                                DefaultValue(section, key))

\* C20 (amended): after construction with any symbol and any user overrides,
\* the value of every key of every section the user layer does not give as a
\* non-mapping value is the user-supplied value if the user layer names that
\* key, else the instrument table entry's value if the entry under the
\* upper-cased symbol names it, else the default; a section the user layer
\* gives as a non-mapping value is that value, and no key of it can be read;
\* a symbol with no table entry is a non-error miss that leaves the defaults.
C20_LayerPrecedenceOfMappings ==
    Constructed =>
        /\ ~Raised(result.out)
        /\ \A section \in Range(SectionNames), key \in KeyNames :
              IF ReplacedByNonMapping(args, section)
              THEN ~config[section].isdict /\ ValueRead(section, key) = None
              ELSE ValueRead(section, key)
                      = ByPrecedence(LayerValue(UserLayerOf(args), section, key),
                                     LayerValue(InstrumentLayerOf(args), section, key),
                                     DefaultValue(section, key))

\* a lower-case symbol with a table entry and a user file naming one key: one
\* value from each of the three layers
C20_Witness ==
    /\ Constructed /\ args.symbol = "tsm"
    /\ LayerValue(UserLayerOf(args), "volatility", "threshold_multiplier") = Some(7)
    /\ ValueRead("volatility", "threshold_multiplier") = Some(7)
    /\ LayerValue(UserLayerOf(args), "ranges", "threshold_percent") = None
    /\ ValueRead("ranges", "threshold_percent") = Some(70)
    /\ ValueRead("general", "min_data_points") = Some(16)

\* the section value the layer supplies for the section: None when the layer
\* does not name the section
Supplies(layer, section) ==
    IF \E i \in DOMAIN layer : layer[i].section = section
    THEN Some((CHOOSE it \in Range(layer) : it.section = section).values)
    ELSE None

\* the keys and values of a section value (a value that is no mapping has none)
ItemsOf(v) == IF v.isdict THEN v.items ELSE NoItems

\* cfg2 is cfg with exactly the keys changed that the layer names in the
\* sections it supplies as mappings to existing sections, and with every
\* section the layer does not supply left as it was
IsOverlay(cfg, cfg2, layer) ==
    \A section \in DOMAIN cfg :
        /\ section \in DOMAIN cfg2
        /\ ~Supplies(layer, section).some => cfg2[section] = cfg[section]
        /\ (Supplies(layer, section).some /\ Supplies(layer, section).v.isdict) =>
              cfg2[section] =
                 SectionDict(DictUpdate(ItemsOf(cfg[section]),
                                        Supplies(layer, section).v.items))

\* C21 (as stated): a merge layer that supplies a mapping naming only some
\* keys of an already existing section changes exactly those keys: every
\* other key of that section and every other section keeps the value it had
\* before the merge.
C21_PartialOverlay ==
    [][args'.fn = "load_from_file" => IsOverlay(config, config', args'.file)]_vars

MissingConfigKey(r) == Raised(r) /\ r.exc.type = "KeyError"

\* every default section/key pair can be read
DefaultsReadable(cfg) ==
    \A section \in DOMAIN DEFAULT_CONFIG :
        \A key \in DOMAIN DEFAULT_CONFIG[section].items :
            ~Raised(ConfigGet(cfg, section, key))

\* C22 (as stated): after any sequence of merge layers applied to a
\* Configuration, every default section/key pair is still present (get on it
\* succeeds).
C22_DefaultsNeverDeleted == DefaultsReadable(config)

\* C22 (amended): after any sequence of merge layers, every default section
\* is still present, and every default key of a section that is still a
\* mapping is still present (get on it succeeds); only a layer that supplies
\* a non-mapping value for a section removes its keys, by replacing the
\* section wholesale.
C22_DefaultsKeptInMappings ==
    \A section \in DOMAIN DEFAULT_CONFIG :
        /\ section \in DOMAIN config
        /\ config[section].isdict =>
              \A key \in DOMAIN DEFAULT_CONFIG[section].items :
                  ~Raised(ConfigGet(config, section, key))

\* after a reload that named one key of volatility and added another, both
\* default keys of the section are there, one with the layer's value
C22_Witness ==
    /\ result.op = "load_from_file" /\ ~Raised(result.out)
    /\ Supplies(args.file, "volatility").some
    /\ config["volatility"].isdict
    /\ DOMAIN config["volatility"].items
          = {"threshold_multiplier", "lookback_period", "extra"}
    /\ config["volatility"].items["threshold_multiplier"] = 7
    /\ DefaultsReadable(config)

\* C23: configuration merge is idempotent: applying the same override layer
\* twice in a row leaves the Configuration equal to the one obtained by
\* applying it once.
C23_MergeIdempotent ==
    result.op = "load_from_file" =>
        /\ load_from_file(config, args.file).value = config
        /\ load_from_file(config, args.file).exc = result.out.exc

\* a layer that changed the Configuration has been applied
C23_Witness ==
    /\ result.op = "load_from_file" /\ ~Raised(result.out)
    /\ args.file # << >>
    /\ \A i \in DOMAIN args.file :
          /\ args.file[i].section \in DOMAIN config
          /\ config[args.file[i].section].isdict
          /\ \A k \in DOMAIN ItemsOf(args.file[i].values) :
                config[args.file[i].section].items[k] = args.file[i].values.items[k]
    /\ config # DEFAULT_CONFIG

---------------------------------------------------------------------------
(* Properties of concurrent analyze calls, checked under SpecConcurrent.   *)

\* the call has returned what analyze returns alone on the arguments and
\* the Configuration it was given, and both are as they were
RanAsIfAlone(call) ==
    /\ call.result.out = analyze(call.given.config, call.given.inputs.closes,
                                 call.given.inputs.highs, call.given.inputs.lows,
                                 call.given.inputs.opens)
    /\ config = call.given.config
    /\ call.closes = call.given.inputs.closes /\ call.highs = call.given.inputs.highs
    /\ call.lows = call.given.inputs.lows /\ call.opens = call.given.inputs.opens

\* C25: analyze holds no state across calls and leaves the Configuration and
\* its input series unchanged: under any interleaving of analyze calls that
\* share one Configuration, each call returns the same result as if it had
\* run alone on its inputs.
C25_CallsIndependent ==
    \A i \in DOMAIN running : running[i].pc = "done" => RanAsIfAlone(running[i])

\* a call has returned a Stage-1 result while another call, on other
\* arguments, is between its blocks
C25_Witness ==
    \E i, j \in DOMAIN running :
        /\ running[i].pc = "done" /\ ~Raised(running[i].result.out)
        /\ running[i].result.out.value.stage_1_detected
        /\ running[j].pc \in {"gap", "range"}
        /\ running[j].given.inputs # running[i].given.inputs

---------------------------------------------------------------------------
(* Properties of the command-line process, checked under SpecCli.          *)

Exited == result.op = "main"
AnalysisCompleted == result.out.results.some

\* C26: the command-line process exits with status 0 only when an analysis
\* completed and no regime was detected, with status 1 only when an analysis
\* completed and a regime was detected, and with status 2 whenever the
\* analysis could not be completed.
C26_ExitStatus ==
    Exited =>
        /\ result.out.status = 0 =>
              AnalysisCompleted /\ ~result.out.results.v.stage_1_detected
        /\ result.out.status = 1 =>
              AnalysisCompleted /\ result.out.results.v.stage_1_detected
        /\ ~AnalysisCompleted => result.out.status = 2

\* a run with a CSV file: the three statuses are as the convention says
C26_ExitStatusWithCsv ==
    Exited /\ args.argv.csv /\ ~args.argv.version =>
        /\ result.out.status = 0 =>
              AnalysisCompleted /\ ~result.out.results.v.stage_1_detected
        /\ result.out.status = 1 =>
              AnalysisCompleted /\ result.out.results.v.stage_1_detected
        /\ ~AnalysisCompleted => result.out.status = 2

---------------------------------------------------------------------------
(* Properties of analyze_with_context, checked under SpecContext.          *)

WithContextCalled == result.op = "analyze_with_context"
StandardAnalysis == analyze(config, closes, highs, lows, opens)

\* the standard fields of the returned mapping are those of analyze
SameVerdict(res, std) ==
    /\ res.stage_1_detected = std.stage_1_detected
    /\ res.signals = std.signals
    /\ res.flags = std.flags
    /\ res.summary = std.summary

\* C27: for inputs on which analyze succeeds, analyze_with_context always
\* returns and never raises, whatever the fetcher or the benchmark analysis
\* does; its stage_1_detected, signals, flags and summary equal those of
\* analyze on the same inputs; and market_context is null whenever
\* include_context is false, no fetcher is given, or no Stage-1 signal was
\* detected.
C27_ContextNeverRaises ==
    WithContextCalled /\ ~Raised(StandardAnalysis) =>
        /\ ~Raised(result.out)
        /\ SameVerdict(result.out.value, StandardAnalysis.value)
        /\ (~include_context \/ fetcher = None
              \/ ~StandardAnalysis.value.stage_1_detected)
             => result.out.value.market_context = None

\* a Stage-1 result with a market context, from a fetcher that failed for
\* one benchmark and answered for another
C27_Witness ==
    /\ WithContextCalled /\ ~Raised(StandardAnalysis)
    /\ include_context /\ fetcher # None
    /\ \E i, j \in DOMAIN fetcher.v : Raised(fetcher.v[i]) /\ ~Raised(fetcher.v[j])
    /\ ~Raised(result.out)
    /\ result.out.value.stage_1_detected
    /\ result.out.value.market_context # None

---------------------------------------------------------------------------
(* Properties of IBKRDataFetcher, checked under SpecFetcher.               *)

\* position in the history h of the last call that satisfies P, or 0
LastCall(h, P(_)) ==
    IF \E i \in DOMAIN h : P(h[i])
    THEN CHOOSE i \in DOMAIN h : P(h[i]) /\ \A j \in DOMAIN h : P(h[j]) => j <= i
    ELSE 0

Accepted(c) == c.op = "connect" /\ c.outcome = "accepted"
Attempted(c) == c.op = "connect" /\ c.outcome \in {"accepted", "refused"}
Disconnected(c) == c.op = "disconnect"

\* by the history h the fetcher was never connected, or was disconnected
\* since it last connected
NeverOrDisconnectedSince(h) ==
    LastCall(h, Accepted) = 0 \/ LastCall(h, Disconnected) > LastCall(h, Accepted)

FetchStep ==
    /\ Len(calls') = Len(calls) + 1
    /\ calls'[Len(calls')].op = "fetch_daily_bars"

\* C28: in every state of an IBKRDataFetcher reachable by connect and
\* disconnect calls in which the fetcher is not connected (never connected,
\* or disconnected since), fetch_daily_bars raises ConnectionError without
\* sending any request to the provider.
C28_FetchNeedsConnection ==
    [][FetchStep /\ NeverOrDisconnectedSince(calls) =>
          /\ Raised(result'.out) /\ result'.out.exc.type = "ConnectionError"
          /\ fetch_log' = fetch_log]_vars

\* fetch_daily_bars has raised ConnectionError on a fetcher that was
\* connected and then disconnected, and nothing was sent since
C28_Witness ==
    /\ Len(calls) = 3
    /\ Accepted(calls[1]) /\ Disconnected(calls[2])
    /\ calls[3].op = "fetch_daily_bars"
    /\ result.op = "fetch_daily_bars" /\ Raised(result.out)
    /\ result.out.exc.type = "ConnectionError"
    /\ fetch_log = << >>

\* by the history h the most recent connect attempt succeeded and no
\* disconnect followed it
LastAttemptHolds(h) ==
    /\ LastCall(h, Attempted) # 0
    /\ Accepted(h[LastCall(h, Attempted)])
    /\ LastCall(h, Disconnected) < LastCall(h, Attempted)

\* C29: after any sequence of connect attempts (each succeeding or failing)
\* and disconnect calls, is_connected() is true if and only if the most
\* recent connect attempt succeeded and no disconnect followed it; a connect
\* that fails with ConnectionError leaves is_connected() false, and
\* disconnect always leaves is_connected() false.
C29_ConnectedIffLastAttempt ==
    /\ is_connected(fetcher) <=> LastAttemptHolds(calls)
    /\ (calls # << >> /\ calls[Len(calls)] = CallMade("connect", "refused"))
          => ~is_connected(fetcher)
    /\ (calls # << >> /\ Disconnected(calls[Len(calls)])) => ~is_connected(fetcher)

\* the part of C29 that holds: disconnect raises nothing and leaves
\* is_connected() false, and a fetcher whose last attempt holds is connected
C29_DisconnectLeavesDisconnected ==
    /\ (calls # << >> /\ Disconnected(calls[Len(calls)])) => ~is_connected(fetcher)
    /\ LastAttemptHolds(calls) => is_connected(fetcher)

---------------------------------------------------------------------------
(* Properties of the shared tables, checked under SpecShared.              *)

\* DEFAULT_CONFIG and the per-instrument table hold their original values
TablesIntact ==
    /\ Deref(heap, DefaultTable) = DEFAULT_CONFIG
    /\ \A i \in DOMAIN StockTable.TSM :
          SectionDict(heap.dicts[StockTable.TSM[i].values.at])
              = STOCK_SPECIFIC_CONFIG.TSM[i].values

\* a step that merges into one instance changes no other instance
OthersUntouched ==
    \A j \in DOMAIN heap.instances :
        (args'.fn = "Config" \/ args'.instance # j)
            => Deref(heap', heap'.instances[j]) = Deref(heap, heap.instances[j])

\* C30: constructing Configurations and applying merge layers never changes
\* the shared tables: after any number of Config instances built with any
\* symbols and any user overrides, DEFAULT_CONFIG and the per-instrument
\* override table hold their original values, and a merge applied to one
\* Config instance is not visible in any other instance.
C30_SharedTablesUnchanged == []TablesIntact /\ [][OthersUntouched]_vars

\* two instances, the first reloaded with a layer that changed its
\* volatility section, the second still as it was built
C30_Witness ==
    /\ Len(heap.instances) = 2
    /\ result.op = "load_from_file" /\ ~Raised(result.out) /\ args.instance = 1
    /\ Deref(heap, heap.instances[1]).volatility.items.threshold_multiplier = 7
    /\ Deref(heap, heap.instances[2]).volatility.items.threshold_multiplier = 3

=============================================================================
